---------------------------- MODULE Spec2Model ----------------------------
(***************************************************************************)
(* The job board.  Resume builder (src/app/components/Resume.tsx): the     *)
(* ResumeData held by ResumeBuilder, the ResumeForm operations that edit   *)
(* it, and the ATS scoring heuristic calculateATSScore.  Job map           *)
(* (src/unnamed/part_001): calculateDistance, the snapshot callback and    *)
(* the filter pipeline of MapView.  The store subscriptions of the         *)
(* components, and createInitialUserData (src/app/page.tsx).  The company  *)
(* portal (src/unnamed/part_002, src/app/company/CreateJobPosting.tsx),    *)
(* the authentication views and registration cards, and JobSearch          *)
(* (src/app/components/Applications.tsx).                                  *)
(*                                                                         *)
(* Spec      is ResumeBuilder started from initialResumeData.              *)
(* SpecScore starts from an arbitrary resume of a bounded family and picks *)
(*           a template: calculateATSScore as a function of its inputs.    *)
(* SpecVerb  is SpecScore over the small resumes into which an action verb *)
(*           is inserted at every position.                                *)
(* SpecMap   is MapView from its mount: snapshots, position, filters.      *)
(* SpecDistance is MapView over a family of user and posting coordinates:  *)
(*           calculateDistance as a function of its inputs.                *)
(* SpecSubscriptions is the mounting and unmounting of the subscribing     *)
(*           components under changes of the signed-in user.               *)
(* SpecProfile is the calls of createInitialUserData for one uid.          *)
(* SpecPost  is handlePostJob of CreateJobPosting inside CompanyDashboard.  *)
(* SpecAuth  is AuthProvider and AuthComponent from the opening of the     *)
(*           page: sign-in, sign-out and the alert.                        *)
(* SpecRegister is handleRegister of the two registration cards.           *)
(* SpecSearch is JobSearch and the details modal of MapView: snapshot      *)
(*           callbacks and applications.                                   *)
(*                                                                         *)
(* A JavaScript string is modelled as a sequence of one-character strings, *)
(* so that trim, toLowerCase, includes and the regular expression of the   *)
(* scorer are computed character by character.  The bullet character       *)
(* U+2022 of the initial data is written "*": like U+2022 it is neither a  *)
(* digit, a letter nor white space.                                        *)
(***************************************************************************)
EXTENDS Integers, Sequences, FiniteSets, TLC

VARIABLES
    resumeData,        \* useState<ResumeData>(initialResumeData)
    selectedTemplate,  \* useState<string>(templates[0].id)
    step,              \* useState<number>(1)
    edits,             \* number of text edits made so far (bounds the exploration)
    allJobs,           \* MapView: useState<JobPostWithCoords[]>([])
    loading,           \* MapView: useState(true)
    geolocation,       \* MapView: the getCurrentPosition request of the mount effect
    userLocation,      \* MapView: useState<LatLngTuple | null>(null)
    searchTerm,        \* MapView: useState("")
    cityFilter,        \* MapView: useState("All")
    nearbyFilter,      \* MapView: useState(false)
    filteredJobs,      \* MapView: the value memoised by useMemo
    error,             \* AuthProvider: useState<string | null>(null)
    timers,            \* AuthProvider: pending setTimeout callbacks of setError
    user,              \* AuthProvider: useState<User | null>(null)
    mounted,           \* the components that are mounted
    unsubscribe,       \* per component, the handle its effect holds
    listeners,         \* the store: per component, the number of its registered listeners
    profile,           \* the store: the document users/{uid}/data/profile
    calls,             \* the calls of createInitialUserData in progress
    now,               \* the store: the clock behind serverTimestamp()
    jobPostings,       \* the store: the collection jobPostings
    companies,         \* the store: the document companies/{uid}
    companyData,       \* CompanyDashboard: useState<any>(null)
    currentMenu,       \* CompanyDashboard: useState('dashboard')
    loads,             \* CompanyDashboard: the calls of loadCompanyData in progress
    post,              \* CreateJobPosting: the call of handlePostJob and isSubmitting
    reports,           \* per call of handlePostJob, what it reported to the dashboard
    currentUser,       \* the authentication service: auth.currentUser
    isAnonymous,       \* AuthProvider: user.isAnonymous of the user held in state
    authLoading,       \* AuthProvider: useState(true), the loading flag
    authView,          \* AuthComponent: useState<'login' | 'register'>('login')
    login,             \* LoginCard: the call of handleLogin and isSubmitting
    logout,            \* Dashboard and CompanyDashboard: the call of handleLogout
    register,          \* per registration card, the call of handleRegister
    accounts,          \* the authentication service: the accounts created
    documents,         \* the store: the initial documents written by the cards
    attempts,          \* per registration card, the number of submissions so far
    jobApplications,   \* the store: the collection jobApplications
    userSavedJobs,     \* the store: the job ids of the user's documents of userSavedJobs
    jobs,              \* JobSearch: useState<JobPost[]>([])
    savedJobIds,       \* JobSearch: useState<Set<string>>(new Set())
    appliedJobIds,     \* JobSearch: useState<Set<string>>(new Set())
    searchLoading,     \* JobSearch: useState(true), the loading flag
    callbacks,         \* JobSearch: the snapshot callbacks in progress
    requests,          \* the addDoc requests of handleApply in flight
    modal              \* MapView: selectedJob, applying and applied

resumeVars == <<resumeData, selectedTemplate, step, edits>>

mapVars ==
    <<allJobs, loading, geolocation, userLocation, searchTerm, cityFilter, nearbyFilter,
      filteredJobs>>

alertVars == <<error, timers>>

subscriptionVars == <<user, mounted, unsubscribe, listeners>>

profileVars == <<profile, calls, now>>

postVars == <<jobPostings, companies, companyData, currentMenu, loads, post, reports>>

authVars == <<currentUser, isAnonymous, authLoading, authView, login, logout>>

registerVars == <<register, accounts, documents, attempts>>

\* The company portal and the forms.
searchVars ==
    <<jobApplications, userSavedJobs, jobs, savedJobIds, appliedJobIds, searchLoading,
      callbacks, requests, modal>>

portalVars == <<postVars, authVars, registerVars, searchVars>>

vars == <<resumeVars, mapVars, alertVars, subscriptionVars, profileVars, portalVars>>

\* What the resume builder neither reads nor writes.
outsideResume == <<mapVars, alertVars, subscriptionVars, profileVars, portalVars>>

---------------------------------------------------------------------------
(* Characters and the String methods used by the scorer.                   *)

Digits == {"0", "1", "2", "3", "4", "5", "6", "7", "8", "9"}

\* The characters matched by \s and removed by String.prototype.trim.
WhiteSpace == {" ", "\t", "\n", "\r"}

UpperCase ==
    <<"A", "B", "C", "D", "E", "F", "G", "H", "I", "J", "K", "L", "M",
      "N", "O", "P", "Q", "R", "S", "T", "U", "V", "W", "X", "Y", "Z">>

LowerCase ==
    <<"a", "b", "c", "d", "e", "f", "g", "h", "i", "j", "k", "l", "m",
      "n", "o", "p", "q", "r", "s", "t", "u", "v", "w", "x", "y", "z">>

UpperCaseSet == {UpperCase[i] : i \in 1..26}

lowerOf == [c \in UpperCaseSet |-> LowerCase[CHOOSE i \in 1..26 : UpperCase[i] = c]]

\* String.prototype.toLowerCase
toLowerCase(s) ==
    LET lowered == [i \in 1..Len(s) |-> IF s[i] \in UpperCaseSet THEN lowerOf[s[i]] ELSE s[i]]
    IN  SubSeq(lowered, 1, Len(s))

\* Length of the white-space run that ends at position i.
RECURSIVE trailingWhiteSpace(_, _)
trailingWhiteSpace(s, i) ==
    IF i >= 1 /\ s[i] \in WhiteSpace THEN 1 + trailingWhiteSpace(s, i - 1) ELSE 0

\* Length of the white-space run that starts at position i.
RECURSIVE leadingWhiteSpace(_, _)
leadingWhiteSpace(s, i) ==
    IF i <= Len(s) /\ s[i] \in WhiteSpace THEN 1 + leadingWhiteSpace(s, i + 1) ELSE 0

\* String.prototype.trim: the text without its leading and its trailing
\* white space.
trim(s) ==
    LET lead == leadingWhiteSpace(s, 1)
    IN  IF lead = Len(s) THEN <<>>
        ELSE SubSeq(s, lead + 1, Len(s) - trailingWhiteSpace(s, Len(s)))

\* String.prototype.includes
includes(s, sub) ==
    \E i \in 1..(Len(s) - Len(sub) + 1) :
        s[i] = sub[1] /\ SubSeq(s, i, i + Len(sub) - 1) = sub

\* Array.prototype.join
RECURSIVE join(_, _)
join(strs, sep) ==
    IF strs = <<>> THEN <<>>
    ELSE IF Len(strs) = 1 THEN strs[1]
    ELSE strs[1] \o sep \o join(Tail(strs), sep)

Min(a, b) == IF a < b THEN a ELSE b

Max(a, b) == IF a > b THEN a ELSE b

\* Math.round; every score the scorer builds is an integer.
MathRound(x) == x

---------------------------------------------------------------------------
(* The regular expression /\d+(\+|\%|x|k|\s+)/g of the scorer.             *)

\* Length of the run of characters of class cls that starts at position i.
RECURSIVE runLength(_, _, _)
runLength(s, i, cls) ==
    IF i <= Len(s) /\ s[i] \in cls THEN 1 + runLength(s, i + 1, cls) ELSE 0

\* groupEnd without the \s+ alternative.
groupEnd_noWhiteSpace(s, p) ==
    IF p > Len(s) THEN 0
    ELSE IF s[p] \in {"+", "%", "x", "k"} THEN p + 1
    ELSE 0

\* The group (\+|\%|x|k|\s+) tried at position p: the position after the
\* group, or 0 when the group does not match there.  \s+ is greedy.
groupEnd(s, p) ==
    IF p > Len(s) THEN 0
    ELSE IF s[p] \in {"+", "%", "x", "k"} THEN p + 1
    ELSE IF s[p] \in WhiteSpace THEN p + runLength(s, p, WhiteSpace)
    ELSE 0

\* One match attempt at position i: \d+ takes the longest digit run and
\* backtracks to shorter ones until the group matches.  The result is the
\* position after the match, or 0 when there is no match at i.
matchEnd(s, i) ==
    LET d  == runLength(s, i, Digits)
        ks == {k \in 1..d : groupEnd(s, i + k) # 0}
    IN  IF ks = {} THEN 0
        ELSE groupEnd(s, i + (CHOOSE k \in ks : \A j \in ks : j <= k))

\* The positions at which a match attempt succeeds.
matchStarts(s) == {j \in 1..Len(s) : s[j] \in Digits /\ matchEnd(s, j) # 0}

\* String.prototype.match with the g flag: the matches are found left to
\* right, each search starting where the previous match ended and moving on
\* one position at a time until a match attempt succeeds.
RECURSIVE matchCountFrom(_, _, _)
matchCountFrom(s, starts, i) ==
    LET ahead == {j \in starts : j >= i}
    IN  IF ahead = {} THEN 0
        ELSE 1 + matchCountFrom(s, starts,
                                matchEnd(s, CHOOSE j \in ahead : \A k \in ahead : j <= k))

---------------------------------------------------------------------------
(* Initial data and the template list.                                     *)

initialJobTitle ==
    <<"S", "e", "n", "i", "o", "r", " ", "S", "o", "f", "t", "w", "a", "r", "e", " ", "E", "n",
      "g", "i", "n", "e", "e", "r">>

initialName ==
    <<"J", "a", "n", "e", " ", "D", "o", "e">>

initialPhone ==
    <<"5", "5", "5", "-", "1", "2", "3", "-", "4", "5", "6", "7">>

initialEmail ==
    <<"j", "a", "n", "e", ".", "d", "o", "e", "@", "e", "x", "a", "m", "p", "l", "e", ".", "c",
      "o", "m">>

initialLinkedin ==
    <<"l", "i", "n", "k", "e", "d", "i", "n", ".", "c", "o", "m", "/", "i", "n", "/", "j", "a",
      "n", "e", "d", "o", "e">>

initialSummary ==
    <<"H", "i", "g", "h", "l", "y", " ", "a", "n", "a", "l", "y", "t", "i", "c", "a", "l", " ",
      "a", "n", "d", " ", "r", "e", "s", "u", "l", "t", "s", "-", "d", "r", "i", "v", "e", "n",
      " ", "p", "r", "o", "f", "e", "s", "s", "i", "o", "n", "a", "l", " ", "w", "i", "t", "h",
      " ", "5", "+", " ", "y", "e", "a", "r", "s", " ", "o", "f", " ", "e", "x", "p", "e", "r",
      "i", "e", "n", "c", "e", " ", "i", "n", " ", "p", "r", "o", "j", "e", "c", "t", " ", "m",
      "a", "n", "a", "g", "e", "m", "e", "n", "t", ",", " ", "s", "p", "e", "c", "i", "a", "l",
      "i", "z", "i", "n", "g", " ", "i", "n", " ", "d", "e", "v", "e", "l", "o", "p", "i", "n",
      "g", " ", "e", "f", "f", "i", "c", "i", "e", "n", "c", "y", "-", "f", "o", "c", "u", "s",
      "e", "d", " ", "s", "o", "l", "u", "t", "i", "o", "n", "s", ".", " ", "P", "r", "o", "v",
      "e", "n", " ", "a", "b", "i", "l", "i", "t", "y", " ", "t", "o", " ", "m", "a", "n", "a",
      "g", "e", " ", "c", "r", "o", "s", "s", "-", "f", "u", "n", "c", "t", "i", "o", "n", "a",
      "l", " ", "t", "e", "a", "m", "s", " ", "a", "n", "d", " ", "a", "c", "h", "i", "e", "v",
      "e", " ", "k", "e", "y", " ", "p", "e", "r", "f", "o", "r", "m", "a", "n", "c", "e", " ",
      "i", "n", "d", "i", "c", "a", "t", "o", "r", "s", " ", "(", "K", "P", "I", "s", ")", ".">>

initialExpTitle ==
    <<"S", "e", "n", "i", "o", "r", " ", "P", "r", "o", "j", "e", "c", "t", " ", "M", "a", "n",
      "a", "g", "e", "r">>

initialExpCompany ==
    <<"T", "e", "c", "h", " ", "I", "n", "n", "o", "v", "a", "t", "o", "r", "s", " ", "C", "o",
      ".">>

initialExpYears ==
    <<"2", "0", "2", "0", " ", "-", " ", "P", "r", "e", "s", "e", "n", "t">>

initialBullets ==
    <<"*", " ", "M", "a", "n", "a", "g", "e", "d", " ", "a", " ", "p", "o", "r", "t", "f", "o",
      "l", "i", "o", " ", "o", "f", " ", "5", "+", " ", "p", "r", "o", "j", "e", "c", "t", "s",
      " ", "s", "i", "m", "u", "l", "t", "a", "n", "e", "o", "u", "s", "l", "y", ",", " ", "i",
      "n", "c", "r", "e", "a", "s", "i", "n", "g", " ", "t", "e", "a", "m", " ", "e", "f", "f",
      "i", "c", "i", "e", "n", "c", "y", " ", "b", "y", " ", "2", "0", "%", ".", "\n", "*",
      " ", "D", "e", "v", "e", "l", "o", "p", "e", "d", " ", "a", "n", "d", " ", "i", "m", "p",
      "l", "e", "m", "e", "n", "t", "e", "d", " ", "a", " ", "n", "e", "w", " ", "t", "r", "a",
      "c", "k", "i", "n", "g", " ", "s", "y", "s", "t", "e", "m", " ", "t", "h", "a", "t", " ",
      "r", "e", "d", "u", "c", "e", "d", " ", "r", "e", "p", "o", "r", "t", "i", "n", "g", " ",
      "t", "i", "m", "e", " ", "b", "y", " ", "3", " ", "h", "o", "u", "r", "s", " ", "p", "e",
      "r", " ", "w", "e", "e", "k", ".", "\n", "*", " ", "A", "c", "h", "i", "e", "v", "e",
      "d", " ", "1", "0", "0", "%", " ", "o", "n", "-", "t", "i", "m", "e", " ", "p", "r", "o",
      "j", "e", "c", "t", " ", "d", "e", "l", "i", "v", "e", "r", "y", " ", "f", "o", "r", " ",
      "Q", "4", " ", "2", "0", "2", "4", ".">>

initialDegree1 ==
    <<"M", ".", "S", ".", " ", "C", "o", "m", "p", "u", "t", "e", "r", " ", "S", "c", "i", "e",
      "n", "c", "e">>

initialInstitution1 ==
    <<"U", "n", "i", "v", "e", "r", "s", "i", "t", "y", " ", "o", "f", " ", "E", "n", "g", "i",
      "n", "e", "e", "r", "i", "n", "g">>

initialEduYears1 ==
    <<"2", "0", "1", "8", " ", "-", " ", "2", "0", "2", "0">>

initialNotes1 ==
    <<"G", "P", "A", ":", " ", "3", ".", "9", "/", "4", ".", "0">>

initialDegree2 ==
    <<"B", ".", "A", ".", " ", "B", "u", "s", "i", "n", "e", "s", "s", " ", "A", "d", "m", "i",
      "n", "i", "s", "t", "r", "a", "t", "i", "o", "n">>

initialInstitution2 ==
    <<"S", "t", "a", "t", "e", " ", "C", "o", "l", "l", "e", "g", "e">>

initialEduYears2 ==
    <<"2", "0", "1", "4", " ", "-", " ", "2", "0", "1", "8">>

initialTechnical ==
    <<"P", "r", "o", "j", "e", "c", "t", " ", "M", "a", "n", "a", "g", "e", "m", "e", "n", "t",
      ",", " ", "S", "c", "r", "u", "m", ",", " ", "A", "g", "i", "l", "e", ",", " ", "S", "Q",
      "L", ",", " ", "P", "y", "t", "h", "o", "n", ",", " ", "D", "a", "t", "a", " ", "A", "n",
      "a", "l", "y", "s", "i", "s", ",", " ", "C", "l", "o", "u", "d", " ", "S", "e", "r", "v",
      "i", "c", "e", "s", " ", "(", "A", "W", "S", ")">>

initialSoft ==
    <<"L", "e", "a", "d", "e", "r", "s", "h", "i", "p", ",", " ", "C", "o", "m", "m", "u", "n",
      "i", "c", "a", "t", "i", "o", "n", ",", " ", "P", "r", "o", "b", "l", "e", "m", "-", "S",
      "o", "l", "v", "i", "n", "g", ",", " ", "T", "e", "a", "m", " ", "C", "o", "l", "l", "a",
      "b", "o", "r", "a", "t", "i", "o", "n">>

initialResumeData ==
    [ jobTitle   |-> initialJobTitle,
      name       |-> initialName,
      phone      |-> initialPhone,
      email      |-> initialEmail,
      linkedin   |-> initialLinkedin,
      summary    |-> initialSummary,
      experience |-> << [ title   |-> initialExpTitle,
                          company |-> initialExpCompany,
                          years   |-> initialExpYears,
                          bullets |-> initialBullets ] >>,
      education  |-> << [ degree      |-> initialDegree1,
                          institution |-> initialInstitution1,
                          years       |-> initialEduYears1,
                          notes       |-> initialNotes1 ],
                        [ degree      |-> initialDegree2,
                          institution |-> initialInstitution2,
                          years       |-> initialEduYears2 ] >>,
      skills     |-> [ technical |-> initialTechnical,
                       soft      |-> initialSoft ] ]

\* The ids of the template list, in its order.
templates == <<"professional", "creative", "classic", "executive", "minimalist", "anti">>

TemplateIds == {templates[i] : i \in 1..Len(templates)}

---------------------------------------------------------------------------
(* calculateATSScore                                                       *)

requiredFields == <<"jobTitle", "name", "email", "summary">>

\* requiredFields.every(field => field.trim().length > 0)
\* completenessBonus that tests the length of the untrimmed field.
completenessBonus_untrimmed(data) ==
    IF \A i \in 1..Len(requiredFields) : Len(data[requiredFields[i]]) > 0 THEN 5 ELSE 0

\* completenessBonus that tests job title, name and email only.
completenessBonus_noSummary(data) ==
    IF \A i \in 1..3 : Len(trim(data[requiredFields[i]])) > 0 THEN 5 ELSE 0

completenessBonus(data) ==
    IF \A i \in 1..Len(requiredFields) : Len(trim(data[requiredFields[i]])) > 0 THEN 5 ELSE 0

\* experienceBonus with the comparison turned round.
experienceBonus_shortBullets(data) ==
    IF Len(data.experience) > 0 /\ Len(data.experience[1].bullets) < 30 THEN 10 ELSE 0

experienceBonus(data) ==
    IF Len(data.experience) > 0 /\ Len(data.experience[1].bullets) > 30 THEN 10 ELSE 0

educationBonus(data) ==
    IF Len(data.education) > 0 /\ Len(data.education[1].institution) > 0 THEN 5 ELSE 0

concatenation(data) ==
    data.summary
    \o join([i \in 1..Len(data.experience) |-> data.experience[i].bullets], <<" ">>)
    \o data.skills.technical
    \o data.skills.soft

content(data) == toLowerCase(concatenation(data))

actionVerbs ==
    << <<"m", "a", "n", "a", "g", "e", "d">>,
       <<"d", "e", "v", "e", "l", "o", "p", "e", "d">>,
       <<"a", "c", "h", "i", "e", "v", "e", "d">>,
       <<"i", "m", "p", "l", "e", "m", "e", "n", "t", "e", "d">>,
       <<"l", "e", "d">>,
       <<"c", "r", "e", "a", "t", "e", "d">>,
       <<"o", "p", "t", "i", "m", "i", "z", "e", "d">> >>

\* verbCountFrom that adds one for every occurrence of a verb.
RECURSIVE verbCountFrom_perOccurrence(_, _)
verbCountFrom_perOccurrence(c, n) ==
    IF n > Len(actionVerbs) THEN 0
    ELSE Cardinality({i \in 1..(Len(c) - Len(actionVerbs[n]) + 1) :
                         SubSeq(c, i, i + Len(actionVerbs[n]) - 1) = actionVerbs[n]})
         + verbCountFrom_perOccurrence(c, n + 1)

\* The forEach loop over actionVerbs, from verb number n on.
RECURSIVE verbCountFrom(_, _)
verbCountFrom(c, n) ==
    IF n > Len(actionVerbs) THEN 0
    ELSE (IF includes(c, actionVerbs[n]) THEN 1 ELSE 0) + verbCountFrom(c, n + 1)

verbCount(c) == verbCountFrom(c, 1)

verbBonus(c) == Min(verbCount(c) * 2, 15)

numberCount(c) == matchCountFrom(c, matchStarts(c), 1)

numberBonus(c) == Min(numberCount(c) * 2, 10)

\* templateAdjustment without the penalty branch of 'anti'.
templateAdjustment_noPenalty(templateId) ==
    IF templateId = "professional" \/ templateId = "classic" THEN 5 ELSE 0

templateAdjustment(templateId) ==
    IF templateId = "professional" \/ templateId = "classic" THEN 5
    ELSE IF templateId = "anti" THEN -10
    ELSE 0

clamp(score) == Min(100, Max(0, MathRound(score)))

\* calculateATSScore without the Math.min caps and without the final clamp.
calculateATSScore_uncapped(data, templateId) ==
    LET c == content(data)
    IN  50 + completenessBonus(data) + experienceBonus(data) + educationBonus(data)
           + verbCount(c) * 2 + numberCount(c) * 2 + templateAdjustment(templateId)

calculateATSScore(data, templateId) ==
    LET c == content(data)
    IN  clamp(50 + completenessBonus(data) + experienceBonus(data) + educationBonus(data)
                 + verbBonus(c) + numberBonus(c) + templateAdjustment(templateId))

(* The call raises a TypeError when it reads a property of undefined.  A   *)
(* field that is undefined is a field missing from the record.             *)

\* field.trim() of every() stops at the first field that fails the test.
requiredThrows(data) ==
    \E i \in 1..Len(requiredFields) :
        /\ requiredFields[i] \notin DOMAIN data
        /\ \A j \in 1..(i - 1) : Len(trim(data[requiredFields[j]])) > 0

\* experienceThrows when data.experience[0] is read without the length test.
experienceThrows_unguarded(data) ==
    Len(data.experience) = 0 \/ "bullets" \notin DOMAIN data.experience[1]

\* data.experience[0].bullets.length, behind data.experience.length > 0 &&
experienceThrows(data) ==
    Len(data.experience) > 0 /\ "bullets" \notin DOMAIN data.experience[1]

\* data.education[0].institution.length, behind data.education.length > 0 &&
educationThrows(data) ==
    Len(data.education) > 0 /\ "institution" \notin DOMAIN data.education[1]

\* data.skills.technical
skillsThrows(data) == "skills" \notin DOMAIN data

calculateATSScoreThrows(data) ==
    requiredThrows(data) \/ experienceThrows(data) \/ educationThrows(data) \/ skillsThrows(data)

---------------------------------------------------------------------------
(* The state of the other components after construction.                   *)

\* JavaScript null and undefined.
null == "null"

undefined == "undefined"

\* The null of LatLngTuple | null.
noLocation == <<>>

\* MapView, lines 154 to 159; the memoised list of the first render is [].
MapInit ==
    /\ allJobs = <<>>
    /\ loading = TRUE
    /\ geolocation = "idle"
    /\ userLocation = noLocation
    /\ searchTerm = <<>>
    /\ cityFilter = "All"
    /\ nearbyFilter = FALSE
    /\ filteredJobs = <<>>

\* AuthProvider: no message, no timer, nobody signed in.
AlertInit ==
    /\ error = null
    /\ timers = 0

\* The components that subscribe to the store.
Components == {"MapView", "SavedJobs", "Applications", "JobPostingManager"}

SubscriptionInit ==
    /\ user = null
    /\ mounted = {}
    /\ unsubscribe = [c \in Components |-> undefined]
    /\ listeners = [c \in Components |-> 0]

\* The callers of createInitialUserData: handleRegister or
\* handleGoogleRegister, and getInitialUserData of the dashboard.
Callers == {"register", "dashboard"}

\* The store without the document users/{uid}/data/profile.
noDocument == [exists |-> FALSE]

\* No call of createInitialUserData is running; now is the clock of the
\* store, read by serverTimestamp().
ProfileInit ==
    /\ profile = noDocument
    /\ calls = [k \in Callers |-> [pc |-> "idle", displayName |-> null, email |-> null]]
    /\ now = 1

\* The store without the document companies/{uid}.
noCompany == [exists |-> FALSE]

\* The null of companyData.
noCompanyData == [loaded |-> FALSE]

\* CompanyDashboard and CreateJobPosting, not mounted: no posting stored,
\* no call in progress.
PostInit ==
    /\ jobPostings = <<>>
    /\ companies = noCompany
    /\ companyData = noCompanyData
    /\ currentMenu = "dashboard"
    /\ loads = 0
    /\ post = [pc |-> "idle", isSubmitting |-> FALSE]
    /\ reports = <<>>

\* auth.currentUser when nobody is signed in.
noUser == [uid |-> null, isAnonymous |-> FALSE]

\* AuthProvider after the first delivery of the authentication state, with
\* nobody signed in.
AuthInit ==
    /\ currentUser = noUser
    /\ isAnonymous = FALSE
    /\ authLoading = FALSE
    /\ authView = "login"
    /\ login = [pc |-> "idle", isSubmitting |-> FALSE]
    /\ logout = "idle"

Cards == {"RegisterCard", "CompanyRegisterCard"}

\* The registration cards with empty fields.
RegisterInit ==
    /\ register = [card \in Cards |->
                     [pc |-> "idle", isSubmitting |-> FALSE,
                      password |-> <<>>, confirmPassword |-> <<>>]]
    /\ accounts = {}
    /\ documents = {}
    /\ attempts = [card \in Cards |-> 0]

\* The null of selectedJob.
noJob == 0

\* JobSearch and the modal of MapView, not mounted; no application stored.
SearchInit ==
    /\ jobApplications = <<>>
    /\ userSavedJobs = {}
    /\ jobs = <<>>
    /\ savedJobIds = {}
    /\ appliedJobIds = {}
    /\ searchLoading = TRUE
    /\ callbacks = {}
    /\ requests = <<>>
    /\ modal = [selectedJob |-> noJob, applying |-> FALSE, applied |-> FALSE]

PortalInit == PostInit /\ AuthInit /\ RegisterInit /\ SearchInit

OutsideResumeInit == MapInit /\ AlertInit /\ SubscriptionInit /\ ProfileInit /\ PortalInit

---------------------------------------------------------------------------
(* ResumeBuilder and ResumeForm                                            *)

\* Most entries a section is grown to.
MaxExperience == 2

MaxEducation == 2

\* Most text edits of one session.
MaxEdits == 1

\* The name attributes of the inputs bound to handleChange, split at '.'.
FormFieldNames ==
    { <<"name">>, <<"jobTitle">>, <<"email">>, <<"phone">>, <<"linkedin">>, <<"summary">>,
      <<"skills", "technical">>, <<"skills", "soft">> }

Sections == {"experience", "education"}

SectionKeys(section) ==
    IF section = "experience" THEN {"title", "company", "years", "bullets"}
    ELSE {"degree", "institution", "years", "notes"}

MaxEntries(section) == IF section = "experience" THEN MaxExperience ELSE MaxEducation

\* The texts typed into a form field.
TypedValues == { <<>> }

\* { ...item, [key]: value }
spread(item, key, value) ==
    [k \in DOMAIN item \cup {key} |-> IF k = key THEN value ELSE item[k]]

\* useMemo(() => calculateATSScore(resumeData, selectedTemplate), [resumeData, selectedTemplate])
atsScore == calculateATSScore(resumeData, selectedTemplate)

\* The updater handleChange passes to setData.
changed(prev, name, value) ==
    IF Len(name) > 1
    THEN spread(prev, name[1], spread(prev[name[1]], name[2], value))
    ELSE spread(prev, name[1], value)

handleChange(name, value) ==
    /\ step = 2
    /\ edits < MaxEdits
    /\ edits' = edits + 1
    /\ resumeData' = changed(resumeData, name, value)
    /\ UNCHANGED <<selectedTemplate, step>>
    /\ UNCHANGED outsideResume

\* The updater handleArrayChange passes to setData.
arrayChanged(prev, section, index, key, value) ==
    spread(prev, section,
           [i \in 1..Len(prev[section]) |->
               IF i = index THEN spread(prev[section][i], key, value) ELSE prev[section][i]])

handleArrayChange(section, index, key, value) ==
    /\ step = 2
    /\ index \in 1..Len(resumeData[section])
    /\ edits < MaxEdits
    /\ edits' = edits + 1
    /\ resumeData' = arrayChanged(resumeData, section, index, key, value)
    /\ UNCHANGED <<selectedTemplate, step>>
    /\ UNCHANGED outsideResume

newItem(section) ==
    IF section = "experience"
    THEN [title |-> <<>>, company |-> <<>>, years |-> <<>>, bullets |-> <<>>]
    ELSE [degree |-> <<>>, institution |-> <<>>, years |-> <<>>, notes |-> <<>>]

addItem(section) ==
    /\ step = 2
    /\ Len(resumeData[section]) < MaxEntries(section)
    /\ resumeData' = spread(resumeData, section, Append(resumeData[section], newItem(section)))
    /\ UNCHANGED <<selectedTemplate, step, edits>>
    /\ UNCHANGED outsideResume

\* prev[section].filter((_, i) => i !== index)
removeItem(section, index) ==
    /\ step = 2
    /\ index \in 1..Len(resumeData[section])
    /\ resumeData' =
          spread(resumeData, section,
                 SubSeq(resumeData[section], 1, index - 1)
                 \o SubSeq(resumeData[section], index + 1, Len(resumeData[section])))
    /\ UNCHANGED <<selectedTemplate, step, edits>>
    /\ UNCHANGED outsideResume

handleTemplateSelect(id) ==
    /\ step = 1
    /\ selectedTemplate' = id
    /\ step' = 2
    /\ UNCHANGED <<resumeData, edits>>
    /\ UNCHANGED outsideResume

\* The step list of the sidebar, goNext of the form and the back button.
setStep(n) ==
    /\ step' = n
    /\ UNCHANGED <<resumeData, selectedTemplate, edits>>
    /\ UNCHANGED outsideResume

Init ==
    /\ resumeData = initialResumeData
    /\ selectedTemplate = templates[1]
    /\ step = 1
    /\ edits = 0
    /\ OutsideResumeInit

Next ==
    \/ \E name \in FormFieldNames, value \in TypedValues : handleChange(name, value)
    \/ \E section \in Sections :
          \E index \in 1..MaxEntries(section), key \in SectionKeys(section), value \in TypedValues :
              handleArrayChange(section, index, key, value)
    \/ \E section \in Sections : addItem(section)
    \/ \E section \in Sections :
          \E index \in 1..MaxEntries(section) : removeItem(section, index)
    \/ \E id \in TemplateIds : handleTemplateSelect(id)
    \/ \E n \in 1..3 : setStep(n)

Spec == Init /\ [][Next]_vars

---------------------------------------------------------------------------
(* calculateATSScore over a bounded family of resumes.                     *)

bullets30 ==
    <<"M", "a", "n", "a", "g", "e", "d", " ", "a", " ", "t", "e", "a", "m", " ", "o", "f", " ",
      "1", "2", " ", "e", "n", "g", "i", "n", "e", "e", "r", "s">>

bullets31 ==
    <<"M", "a", "n", "a", "g", "e", "d", " ", "a", " ", "t", "e", "a", "m", " ", "o", "f", " ",
      "1", "2", " ", "e", "n", "g", "i", "n", "e", "e", "r", "s", ".">>

summaryLed ==
    <<"L", "e", "d", " ", "5", "K", " ", "3">>

technicalNumbers ==
    <<"x", " ", "L", "E", "D", " ", "1", " ", "2", " ", "3", " ", "4", " ", "5", " ", "6", " ",
      "7", " ", "8", " ", "9">>

softCreated ==
    <<"%", " ", "c", "r", "e", "a", "t", "e", "d">>

\* Job title, name and email: all filled in, one of them empty or white
\* space only, or all empty.
InputContacts ==
    { << <<"Q", "A">>, <<"A", "l">>, <<"a", "@", "b">> >>,
      << <<>>,         <<"A", "l">>, <<"a", "@", "b">> >>,
      << <<" ">>,      <<"A", "l">>, <<"a", "@", "b">> >>,
      << <<"Q", "A">>, <<>>,         <<"a", "@", "b">> >>,
      << <<"Q", "A">>, <<"A", "l">>, <<>> >>,
      << <<>>,         <<>>,         <<>> >> }

InputSummaries == { <<>>, <<" ">>, summaryLed }

InputBullets == { bullets30, bullets31 }

InputInstitutions == { <<>>, <<"M", "I", "T">> }

InputTechnicals == { <<>>, technicalNumbers }

InputSofts == { <<>>, softCreated }

SeqsUpTo(S, n) == UNION { [1..k -> S] : k \in 0..n }

InputExperiences ==
    { [title |-> <<>>, company |-> <<>>, years |-> <<>>, bullets |-> b] : b \in InputBullets }

InputEducations ==
    { [degree |-> <<>>, institution |-> i, years |-> <<>>, notes |-> <<>>] :
          i \in InputInstitutions }

ResumeInputs ==
    { [ jobTitle   |-> ct[1], name |-> ct[2], phone |-> <<>>, email |-> ct[3],
        linkedin   |-> <<>>, summary |-> su, experience |-> ex, education |-> ed,
        skills     |-> [technical |-> te, soft |-> so] ] :
          ct \in InputContacts, su \in InputSummaries,
          ex \in SeqsUpTo(InputExperiences, MaxExperience),
          ed \in SeqsUpTo(InputEducations, MaxEducation),
          te \in InputTechnicals, so \in InputSofts }

InitScore ==
    /\ resumeData \in ResumeInputs
    /\ selectedTemplate = templates[1]
    /\ step = 1
    /\ edits = 0
    /\ OutsideResumeInit

NextScore == \E id \in TemplateIds : handleTemplateSelect(id)

SpecScore == InitScore /\ [][NextScore]_vars

---------------------------------------------------------------------------
(* Small resumes into whose scored fields an action verb is inserted.      *)

bullets29 ==
    <<"M", "a", "n", "a", "g", "e", "d", " ", "a", " ", "t", "e", "a", "m", " ", "o", "f", " ",
      "1", "2", " ", "e", "n", "g", "i", "n", "e", "e", "r">>

summaryLed5k ==
    <<"l", "e", "d", " ", "5", "k">>

softVerb ==
    <<"c", "r", "e", "a", "t", "e", "d">>

VerbInputs ==
    { [ jobTitle   |-> <<"Q", "A">>, name |-> <<"A", "l">>, phone |-> <<>>,
        email      |-> <<"a", "@", "b">>, linkedin |-> <<>>,
        summary    |-> su,
        experience |-> [i \in 1..Len(bs) |->
                           [title |-> <<>>, company |-> <<>>, years |-> <<>>, bullets |-> bs[i]]],
        education  |-> <<>>,
        skills     |-> [technical |-> te, soft |-> so] ] :
          su \in { <<>>, summaryLed5k },
          bs \in { <<>>, << <<"7">> >>, << <<"7">>, <<"x">> >>, << bullets29 >> },
          te \in { <<>>, <<"k">> },
          so \in { <<>>, softVerb } }

InitVerb ==
    /\ resumeData \in VerbInputs
    /\ selectedTemplate = templates[1]
    /\ step = 1
    /\ edits = 0
    /\ OutsideResumeInit

SpecVerb == InitVerb /\ [][NextScore]_vars

\* The text fields that go into the concatenation: the three named inputs
\* and the bullets of each experience entry.
ScoredFields(data) ==
    { <<"summary">>, <<"skills", "technical">>, <<"skills", "soft">> }
        \cup { <<"experience", i>> : i \in 1..Len(data.experience) }

FieldText(data, f) ==
    IF f[1] = "experience" THEN data.experience[f[2]].bullets
    ELSE IF f[1] = "skills" THEN data.skills[f[2]]
    ELSE data[f[1]]

\* The resume after the user has replaced the text of field f.
WithText(data, f, text) ==
    IF f[1] = "experience" THEN arrayChanged(data, "experience", f[2], "bullets", text)
    ELSE changed(data, f, text)

InsertAt(s, p, w) == SubSeq(s, 1, p) \o w \o SubSeq(s, p + 1, Len(s))

\* Number of characters of the concatenation before the bullets of entry i.
RECURSIVE BulletsOffset(_, _)
BulletsOffset(data, i) ==
    IF i = 1 THEN Len(data.summary)
    ELSE BulletsOffset(data, i - 1) + Len(data.experience[i - 1].bullets) + 1

\* Number of characters of the concatenation before the text of field f.
Offset(data, f) ==
    IF f[1] = "summary" THEN 0
    ELSE IF f[1] = "experience" THEN BulletsOffset(data, f[2])
    ELSE IF f[2] = "technical"
         THEN Len(concatenation(data)) - Len(data.skills.soft) - Len(data.skills.technical)
    ELSE Len(concatenation(data)) - Len(data.skills.soft)

\* The insertion point p of field f neither lies inside an occurrence of an
\* action verb nor directly between a digit and a following '+', '%', 'x',
\* 'k' or white-space character of the concatenation.
CleanInsertionPoint(data, f, p) ==
    LET c   == content(data)
        cut == Offset(data, f) + p
    IN  /\ ~( /\ cut >= 1
              /\ cut < Len(c)
              /\ c[cut] \in Digits
              /\ c[cut + 1] \in {"+", "%", "x", "k"} \cup WhiteSpace )
        /\ ~\E n \in 1..Len(actionVerbs), i \in 1..cut :
               /\ cut < i + Len(actionVerbs[n]) - 1
               /\ i + Len(actionVerbs[n]) - 1 <= Len(c)
               /\ SubSeq(c, i, i + Len(actionVerbs[n]) - 1) = actionVerbs[n]

ScoreAfterInsert(f, p, n) ==
    calculateATSScore(WithText(resumeData, f, InsertAt(FieldText(resumeData, f), p, actionVerbs[n])),
                      selectedTemplate)

---------------------------------------------------------------------------
(* calculateDistance.  A JavaScript number is modelled as a fixed-point     *)
(* number: a coordinate is an integer number of 1/10000 degree, an angle,   *)
(* a sine, a cosine, the haversine term a or a square root an integer       *)
(* number of 1/100000000, and a distance a whole number of kilometres, the  *)
(* nearest one.  A product is computed from the halves of its factors, so   *)
(* that no intermediate value leaves the 32-bit integers, and is rounded    *)
(* towards zero, as every floating-point product is rounded symmetrically,  *)
(* so that the sign symmetry of the IEEE operations is kept.  The functions *)
(* of Math are computed from their power series in that arithmetic; the     *)
(* distance is within 20 m of the IEEE value at 50 km.                      *)

Scale == 100000000

\* The square root of Scale: the radix of the halves of a number.
Radix == 10000

\* x / y rounded towards zero.
quot(x, y) == IF x >= 0 THEN x \div y ELSE -((-x) \div y)

abs(x) == IF x < 0 THEN -x ELSE x

\* The product of two numbers x, y >= 0 of scale 1/Scale, in that scale.
mulAbs(x, y) ==
    LET xh == x \div Radix
        xl == x % Radix
        yh == y \div Radix
        yl == y % Radix
    IN  xh * yh + (xh * yl + xl * yh + (xl * yl) \div Radix) \div Radix

\* The product of two numbers of scale 1/Scale, in that scale.
mul(x, y) ==
    IF (x < 0) # (y < 0) THEN -mulAbs(abs(x), abs(y)) ELSE mulAbs(abs(x), abs(y))

\* The long division: n more digit pairs (radix 5, then radix 2) of the
\* quotient q with remainder rem of a division by d.
RECURSIVE divSteps(_, _, _, _)
divSteps(q, rem, d, n) ==
    IF n = 0 THEN q
    ELSE LET q5 == q * 5 + (rem * 5) \div d
             r5 == (rem * 5) % d
         IN  divSteps(q5 * 2 + (r5 * 2) \div d, (r5 * 2) % d, d, n - 1)

\* The quotient x / y of two numbers 0 <= x <= y, y > 0, in scale 1/Scale.
div(x, y) == divSteps(x \div y, x % y, y, 8)

\* Math.PI
MathPI == 314159265

\* d * (Math.PI / 180) for d in 1/10000 degree: Math.PI / 180 is
\* 0.0174532925, so that a 1/10000 degree is 174.532925 / Scale.
timesPiOver180(d) ==
    LET m == abs(d)
        r == m * 174 + (m * 532) \div 1000 + (m * 925) \div 1000000
    IN  IF d < 0 THEN -r ELSE r

\* 1 - (x2/d[k]) (1 - (x2/d[k+1]) (1 - ...)), over the denominators d.
RECURSIVE nested(_, _, _)
nested(x2, d, k) ==
    IF k > Len(d) THEN Scale
    ELSE Scale - mul(quot(x2, d[k]), nested(x2, d, k + 1))

\* The sine series x - x^3/3! + x^5/5! - ... - x^15/15!, for 0 <= x <= pi/2.
sinSeries(x) == mul(x, nested(mul(x, x), <<6, 20, 42, 72, 110, 156, 210>>, 1))

\* Math.sin for -pi <= x <= pi: odd, and sin(x) = sin(pi - x) above pi/2.
MathSin(x) ==
    LET m == abs(x)
        v == IF m > MathPI \div 2 THEN sinSeries(MathPI - m) ELSE sinSeries(m)
    IN  IF x < 0 THEN -v ELSE v

\* Math.cos for -pi/2 <= x <= pi/2: the series 1 - x^2/2! + ... + x^16/16!.
MathCos(x) == nested(mul(x, x), <<2, 12, 30, 56, 90, 132, 182, 240>>, 1)

\* The least r in lo..hi with r * r >= n, in scale 1/Scale.
RECURSIVE rootBetween(_, _, _)
rootBetween(n, lo, hi) ==
    IF lo = hi THEN lo
    ELSE LET mid == (lo + hi) \div 2
         IN  IF mulAbs(mid, mid) >= n THEN rootBetween(n, lo, mid)
             ELSE rootBetween(n, mid + 1, hi)

\* Math.sqrt of a number 0 <= n <= 2, in scale 1/Scale.
MathSqrt(n) == rootBetween(n, 0, 2 * Scale)

\* 1/k - w2 (1/(k+2) - w2 (... 1/23)).
RECURSIVE atanTerms(_, _)
atanTerms(w2, k) ==
    IF k > 23 THEN 0 ELSE quot(Scale, k) - mul(w2, atanTerms(w2, k + 2))

\* The arc tangent series w - w^3/3 + w^5/5 - ... - w^23/23, for w < 1/2.
atanSeries(w) == mul(w, atanTerms(mul(w, w), 1))

\* atan(z) for 0 <= z <= 1, as 2 atan(z / (1 + sqrt(1 + z^2))).
atanUnit(z) == 2 * atanSeries(div(z, Scale + MathSqrt(Scale + mul(z, z))))

\* Math.atan2 for y >= 0 and x >= 0.
MathAtan2(y, x) ==
    IF y = 0 THEN 0
    ELSE IF x >= y THEN atanUnit(div(y, x))
    ELSE MathPI \div 2 - atanUnit(div(x, y))

\* R * c for a whole R and c >= 0 of scale 1/Scale: the nearest whole number.
times(R, c) ==
    (R * (c \div Radix) + (R * (c % Radix)) \div Radix + Radix \div 2) \div Radix

\* calculateDistance with the subtraction of dLat turned into an addition.
calculateDistance_addedLatitudes(lat1, lon1, lat2, lon2) ==
    LET R    == 6371
        dLat == timesPiOver180(lat2 + lat1)
        dLon == timesPiOver180(lon2 - lon1)
        a    == mul(MathSin(quot(dLat, 2)), MathSin(quot(dLat, 2)))
                + mul(mul(mul(MathCos(timesPiOver180(lat1)), MathCos(timesPiOver180(lat2))),
                          MathSin(quot(dLon, 2))),
                      MathSin(quot(dLon, 2)))
        c    == 2 * MathAtan2(MathSqrt(a), MathSqrt(Scale - a))
    IN  times(R, c)

\* calculateDistance with the cosine of lat1 taken twice.
calculateDistance_oneCosine(lat1, lon1, lat2, lon2) ==
    LET R    == 6371
        dLat == timesPiOver180(lat2 - lat1)
        dLon == timesPiOver180(lon2 - lon1)
        a    == mul(MathSin(quot(dLat, 2)), MathSin(quot(dLat, 2)))
                + mul(mul(mul(MathCos(timesPiOver180(lat1)), MathCos(timesPiOver180(lat1))),
                          MathSin(quot(dLon, 2))),
                      MathSin(quot(dLon, 2)))
        c    == 2 * MathAtan2(MathSqrt(a), MathSqrt(Scale - a))
    IN  times(R, c)

calculateDistance(lat1, lon1, lat2, lon2) ==
    LET R    == 6371
        dLat == timesPiOver180(lat2 - lat1)
        dLon == timesPiOver180(lon2 - lon1)
        a    == mul(MathSin(quot(dLat, 2)), MathSin(quot(dLat, 2)))
                + mul(mul(mul(MathCos(timesPiOver180(lat1)), MathCos(timesPiOver180(lat2))),
                          MathSin(quot(dLon, 2))),
                      MathSin(quot(dLon, 2)))
        c    == 2 * MathAtan2(MathSqrt(a), MathSqrt(Scale - a))
    IN  times(R, c)

---------------------------------------------------------------------------
(* MapView: the snapshot callback, the geolocation callbacks, the filter    *)
(* inputs and the memoised filter pipeline.  A city is a TLA+ string: it is *)
(* only compared and looked up.                                             *)

NEARBY_RADIUS_KM == 50

cityToCoords ==
    [ Mumbai    |-> <<190760, 728777>>,
      Bangalore |-> <<129716, 775946>>,
      Delhi     |-> <<287041, 771025>>,
      Remote    |-> <<407128, -740060>>,
      Chennai   |-> <<130827, 802707>>,
      Kolkata   |-> <<225726, 883639>> ]

\* The messages handed to setError.
msgLoadFailed == "Failed to load jobs for map: "

msgLocated == "User location detected for 'Nearby' search."

msgNoLocation == "Could not get your precise location. 'Nearby' search is disabled."

msgShowing == "Showing jobs within 50km of your location."

\* data.city || "Remote"
cityOf(data) == IF "city" \in DOMAIN data /\ data.city # "" THEN data.city ELSE "Remote"

\* latitude && longitude: a number that is missing or 0 is falsy.
hasCoordinates(data) ==
    /\ "latitude" \in DOMAIN data /\ data.latitude # 0
    /\ "longitude" \in DOMAIN data /\ data.longitude # 0

\* cityToCoords[city] || cityToCoords["Remote"]
coordinatesOf(data) ==
    IF hasCoordinates(data) THEN <<data.latitude, data.longitude>>
    ELSE IF cityOf(data) \in DOMAIN cityToCoords THEN cityToCoords[cityOf(data)]
    ELSE cityToCoords["Remote"]

\* { id: d.id, ...data, city, coordinates }
fetchedJob(d) ==
    [k \in {"id", "city", "coordinates"} \cup DOMAIN d.data |->
        IF k = "id" THEN d.id
        ELSE IF k = "city" THEN cityOf(d.data)
        ELSE IF k = "coordinates" THEN coordinatesOf(d.data)
        ELSE d.data[k]]

fetchedJobs(docs) == [i \in 1..Len(docs) |-> fetchedJob(docs[i])]

\* The text search without the lowering of the search term.
textSearch_termNotLowered(result, term) ==
    IF term # <<>>
    THEN SelectSeq(result, LAMBDA job :
             \/ includes(toLowerCase(job.jobTitle), term)
             \/ includes(toLowerCase(job.companyName), term)
             \/ includes(toLowerCase(job.description), term))
    ELSE result

\* Lines 248 to 256.
textSearch(result, term) ==
    IF term # <<>>
    THEN LET lowerSearchTerm == toLowerCase(term)
         IN  SelectSeq(result, LAMBDA job :
                 \/ includes(toLowerCase(job.jobTitle), lowerSearchTerm)
                 \/ includes(toLowerCase(job.companyName), lowerSearchTerm)
                 \/ includes(toLowerCase(job.description), lowerSearchTerm))
    ELSE result

\* Lines 258 to 260.
citySelect(result, city) ==
    IF city # "All" THEN SelectSeq(result, LAMBDA job : job.city = city) ELSE result

\* The distance test with < in place of <=.
isNearby_exclusive(location, job) ==
    calculateDistance(location[1], location[2], job.coordinates[1], job.coordinates[2])
        < NEARBY_RADIUS_KM

\* Lines 264 to 268.
isNearby(location, job) ==
    calculateDistance(location[1], location[2], job.coordinates[1], job.coordinates[2])
        <= NEARBY_RADIUS_KM

\* The distance filter that keeps nothing when there is no user location.
distanceSelect_nothingWithoutLocation(result, nearby, location) ==
    IF nearby
    THEN IF location # noLocation
         THEN SelectSeq(result, LAMBDA job : isNearby(location, job))
         ELSE <<>>
    ELSE result

\* Lines 262 to 268.
distanceSelect(result, nearby, location) ==
    IF nearby /\ location # noLocation
    THEN SelectSeq(result, LAMBDA job : isNearby(location, job))
    ELSE result

\* The callback of useMemo without its call of setError.
computeFilteredJobs(all, term, city, nearby, location) ==
    distanceSelect(citySelect(textSearch(all, term), city), nearby, location)

\* Most documents of a snapshot.
MaxDocs == 2

\* Most auto-dismiss timers pending at a time.
MaxTimers == 2

\* The documents of the collection jobPostings, in the order of the query:
\* orderBy("createdAt", "desc").
JobDocuments ==
    << [id |-> "j1",
         data |-> [jobTitle |-> <<"D", "e", "v">>,
                   companyName |-> <<"A", "c", "m", "e">>,
                   description |-> <<"R", "e", "a", "c", "t">>,
                   city |-> "Mumbai"]],
       [id |-> "j2",
         data |-> [jobTitle |-> <<"Q", "A">>,
                   companyName |-> <<"B", "o", "l", "t">>,
                   description |-> <<"d", "e", "v", " ", "t", "o", "o", "l", "s">>,
                   city |-> "Delhi", latitude |-> 195256, longitude |-> 728777]],
       [id |-> "j3",
         data |-> [jobTitle |-> <<"O", "p", "s">>,
                   companyName |-> <<"D", "e", "v", "c", "o">>,
                   description |-> <<"n", "i", "g", "h", "t">>]],
       [id |-> "j4",
         data |-> [jobTitle |-> <<"D", "e", "v">>,
                   companyName |-> <<"D", "u", "n", "e">>,
                   description |-> <<"a", "p", "i">>,
                   city |-> "Pune", latitude |-> 195560, longitude |-> 728777]],
       [id |-> "j5",
         data |-> [jobTitle |-> <<"P", "M">>,
                   companyName |-> <<"A", "c", "m", "e">>,
                   description |-> <<"p", "l", "a", "n">>,
                   city |-> "Mumbai", latitude |-> 0, longitude |-> 728777]],
       [id |-> "j6",
         data |-> [jobTitle |-> <<"H", "R">>,
                   companyName |-> <<"E", "c", "h", "o">>,
                   description |-> <<"h", "i", "r", "e">>,
                   city |-> "Pune"]] >>

\* The documents of JobDocuments at the indices S, in the order of the query.
docsAt(S) ==
    LET indices == SelectSeq([i \in 1..Len(JobDocuments) |-> i], LAMBDA i : i \in S)
    IN  [k \in 1..Len(indices) |-> JobDocuments[indices[k]]]

\* The snapshots: the collection holds some of the documents.
Snapshots ==
    { docsAt(S) : S \in { T \in SUBSET (1..Len(JobDocuments)) : Cardinality(T) <= MaxDocs } }

\* The positions the browser reports.
Positions == { <<190760, 728777>> }

\* The texts typed into the search box.
SearchTerms == { <<>>, <<"D", "E", "V">> }

\* setError(message, isError) of AuthProvider: the alert message and the
\* number of pending timers it leaves, from t pending timers.
setError(message, isError, t) ==
    [error |-> message, timers |-> IF isError THEN t ELSE t + 1]

\* The render after a state update.  useMemo runs its callback when one of
\* its dependencies changed; the callback calls setError when the distance
\* filter is active.  alert is what the handler itself left.
render(depsChanged, alert) ==
    IF depsChanged
    THEN /\ filteredJobs' = computeFilteredJobs(allJobs', searchTerm', cityFilter',
                                                nearbyFilter', userLocation')
         /\ IF nearbyFilter' /\ userLocation' # noLocation
            THEN /\ alert.timers < MaxTimers
                 /\ error' = setError(msgShowing, FALSE, alert.timers).error
                 /\ timers' = setError(msgShowing, FALSE, alert.timers).timers
            ELSE /\ error' = alert.error
                 /\ timers' = alert.timers
    ELSE /\ filteredJobs' = filteredJobs
         /\ error' = alert.error
         /\ timers' = alert.timers

alertNow == [error |-> error, timers |-> timers]

outsideMap == <<resumeVars, profileVars, portalVars, user, mounted, unsubscribe>>

\* The success callback of onSnapshot, lines 184 to 204.
snapshotCallback(docs) ==
    /\ listeners["MapView"] > 0
    /\ allJobs' = fetchedJobs(docs)
    /\ loading' = FALSE
    /\ UNCHANGED <<geolocation, userLocation, searchTerm, cityFilter, nearbyFilter>>
    /\ UNCHANGED <<listeners, outsideMap>>
    /\ render(TRUE, alertNow)

\* The error callback of onSnapshot, lines 205 to 208; the store drops a
\* listener it has reported an error to.
snapshotError ==
    /\ listeners["MapView"] > 0
    /\ listeners' = [listeners EXCEPT !["MapView"] = @ - 1]
    /\ loading' = FALSE
    /\ UNCHANGED <<allJobs, geolocation, userLocation, searchTerm, cityFilter, nearbyFilter>>
    /\ UNCHANGED outsideMap
    /\ render(FALSE, setError(msgLoadFailed, TRUE, timers))

\* The success callback of getCurrentPosition, lines 229 to 232.
positionCallback(position) ==
    /\ geolocation = "pending"
    /\ timers < MaxTimers
    /\ geolocation' = "done"
    /\ userLocation' = position
    /\ UNCHANGED <<allJobs, loading, searchTerm, cityFilter, nearbyFilter>>
    /\ UNCHANGED <<listeners, outsideMap>>
    /\ render(TRUE, setError(msgLocated, FALSE, timers))

\* The error callback of getCurrentPosition, lines 233 to 239.
positionError ==
    /\ geolocation = "pending"
    /\ geolocation' = "done"
    /\ UNCHANGED <<allJobs, loading, userLocation, searchTerm, cityFilter, nearbyFilter>>
    /\ UNCHANGED <<listeners, outsideMap>>
    /\ render(FALSE, setError(msgNoLocation, TRUE, timers))

\* onChange of the search box, line 319; the form is rendered once loading
\* is false.
setSearchTerm(value) ==
    /\ ~loading
    /\ value # searchTerm
    /\ searchTerm' = value
    /\ UNCHANGED <<allJobs, loading, geolocation, userLocation, cityFilter, nearbyFilter>>
    /\ UNCHANGED <<listeners, outsideMap>>
    /\ render(TRUE, alertNow)

\* The options of the city select, lines 301 and 330 to 335.
availableCities == {"All"} \cup {allJobs[i].city : i \in 1..Len(allJobs)}

\* onChange of the city select, line 328.
setCityFilter(value) ==
    /\ ~loading
    /\ value \in availableCities
    /\ value # cityFilter
    /\ cityFilter' = value
    /\ UNCHANGED <<allJobs, loading, geolocation, userLocation, searchTerm, nearbyFilter>>
    /\ UNCHANGED <<listeners, outsideMap>>
    /\ render(TRUE, alertNow)

\* onChange of the nearby switch, line 346; it is disabled without a user
\* location, line 347.
setNearbyFilter(checked) ==
    /\ ~loading
    /\ userLocation # noLocation
    /\ checked # nearbyFilter
    /\ nearbyFilter' = checked
    /\ UNCHANGED <<allJobs, loading, geolocation, userLocation, searchTerm, cityFilter>>
    /\ UNCHANGED <<listeners, outsideMap>>
    /\ render(TRUE, alertNow)

\* The callback of setTimeout(() => setErrorState(null), 5000).
dismissTimer ==
    /\ timers > 0
    /\ timers' = timers - 1
    /\ error' = null
    /\ UNCHANGED <<mapVars, resumeVars, subscriptionVars, profileVars, portalVars>>

\* MapView after its mount effects: the listener is registered, the
\* position is requested when the browser has geolocation.
InitMap ==
    /\ allJobs = <<>>
    /\ loading = TRUE
    /\ geolocation \in {"pending", "unavailable"}
    /\ userLocation = noLocation
    /\ searchTerm = <<>>
    /\ cityFilter = "All"
    /\ nearbyFilter = FALSE
    /\ filteredJobs = <<>>
    /\ AlertInit
    /\ user = null
    /\ mounted = {"MapView"}
    /\ unsubscribe = [c \in Components |-> IF c = "MapView" THEN "handle" ELSE undefined]
    /\ listeners = [c \in Components |-> IF c = "MapView" THEN 1 ELSE 0]
    /\ ProfileInit
    /\ PortalInit
    /\ resumeData = initialResumeData
    /\ selectedTemplate = templates[1]
    /\ step = 1
    /\ edits = 0

NextMap ==
    \/ \E docs \in Snapshots : snapshotCallback(docs)
    \/ snapshotError
    \/ \E position \in Positions : positionCallback(position)
    \/ positionError
    \/ \E value \in SearchTerms : setSearchTerm(value)
    \/ \E value \in availableCities : setCityFilter(value)
    \/ \E checked \in BOOLEAN : setNearbyFilter(checked)
    \/ dismissTimer

SpecMap == InitMap /\ [][NextMap]_vars

---------------------------------------------------------------------------
(* calculateDistance over a family of points: MapView with one posting of   *)
(* explicit coordinates in allJobs and the user located, both drawn from    *)
(* Points; the user switches the nearby filter.                             *)

\* Points of both hemispheres, near the equator and a pole, and the cities.
Points ==
    { <<190760, 728777>>, <<129716, 775946>>, <<287041, 771025>>, <<407128, -740060>>,
      <<130827, 802707>>, <<225726, 883639>>, <<195256, 728777>>, <<190760, 728700>>,
      <<5000, 728777>>, <<-337000, 1511000>>, <<895000, 10000>>, <<-190760, 728777>> }

\* A document of explicit coordinates.
documentAt(point) ==
    [id |-> "j0",
     data |-> [jobTitle |-> <<"D", "e", "v">>,
               companyName |-> <<"A", "c", "m", "e">>,
               description |-> <<"R", "e", "a", "c", "t">>,
               city |-> "Pune", latitude |-> point[1], longitude |-> point[2]]]

\* MapView after the position callback, the snapshot callback and the
\* timer that dismisses the message of the position callback.
InitDistance ==
    /\ userLocation \in Points
    /\ \E point \in Points : allJobs = fetchedJobs(<<documentAt(point)>>)
    /\ loading = FALSE
    /\ geolocation = "done"
    /\ searchTerm = <<>>
    /\ cityFilter = "All"
    /\ nearbyFilter = FALSE
    /\ filteredJobs = allJobs
    /\ AlertInit
    /\ user = null
    /\ mounted = {"MapView"}
    /\ unsubscribe = [c \in Components |-> IF c = "MapView" THEN "handle" ELSE undefined]
    /\ listeners = [c \in Components |-> IF c = "MapView" THEN 1 ELSE 0]
    /\ ProfileInit
    /\ PortalInit
    /\ resumeData = initialResumeData
    /\ selectedTemplate = templates[1]
    /\ step = 1
    /\ edits = 0

NextDistance ==
    \/ \E checked \in BOOLEAN : setNearbyFilter(checked)
    \/ dismissTimer

SpecDistance == InitDistance /\ [][NextDistance]_vars

---------------------------------------------------------------------------
(* The store subscriptions of MapView, SavedJobs, Applications and          *)
(* JobPostingManager: each opens at most one listener in an effect whose    *)
(* cleanup calls the handle that onSnapshot returned.  A user is known by   *)
(* the uid; listeners counts the listeners of a component that the store    *)
(* holds.                                                                   *)

Users == {"u1", "u2"}

\* The components whose fetch function needs a signed-in user: if (!user)
\* return, if (!companyId) return.
NeedsUser == {"SavedJobs", "Applications", "JobPostingManager"}

\* The components that call onSnapshot inside try and catch.
Guarded == {"MapView", "Applications", "JobPostingManager"}

msgSetup ==
    [ MapView           |-> "Error setting up job listener.",
      Applications      |-> "Error setting up application listener.",
      JobPostingManager |-> "Error setting up job listener." ]

msgFailed ==
    [ MapView           |-> msgLoadFailed,
      SavedJobs         |-> "Failed to load saved jobs: ",
      Applications      |-> "Failed to load applications: ",
      JobPostingManager |-> "Failed to load job postings: " ]

\* The fetch function of c reaches onSnapshot for the user u.
subscribes(c, u) == c \notin NeedsUser \/ u # null

\* The cleanup of the effect that leaves the handle uncalled.
cleanup_handleNotCalled(handle, count) == count

\* The cleanup of the effect, if (unsubscribe) unsubscribe(): the number of
\* listeners it leaves of count.  The handle of a listener that the store
\* has dropped does nothing.
cleanup(handle, count) ==
    IF handle # undefined THEN Max(0, count - 1) ELSE count

\* The mount of MapView: the effect of lines 218 to 223 runs fetchJobs, the
\* effect of lines 226 to 242 asks for the position when the browser has
\* geolocation.  thrown says that onSnapshot threw.
mountMapView(thrown, hasGeolocation) ==
    /\ "MapView" \notin mounted
    /\ mounted' = mounted \cup {"MapView"}
    /\ unsubscribe' = [unsubscribe EXCEPT !["MapView"] = IF thrown THEN undefined ELSE "handle"]
    /\ listeners' = [listeners EXCEPT !["MapView"] = IF thrown THEN @ ELSE @ + 1]
    /\ error' = IF thrown THEN msgSetup["MapView"] ELSE null
    /\ allJobs' = <<>>
    /\ loading' = ~thrown
    /\ geolocation' = IF hasGeolocation THEN "pending" ELSE "unavailable"
    /\ userLocation' = noLocation
    /\ searchTerm' = <<>>
    /\ cityFilter' = "All"
    /\ nearbyFilter' = FALSE
    /\ filteredJobs' = <<>>
    /\ UNCHANGED <<user, timers, resumeVars, profileVars, portalVars>>

\* The mount of SavedJobs, Applications or JobPostingManager: the effect
\* runs the fetch function.
mount(c, thrown) ==
    /\ c \in NeedsUser
    /\ c \notin mounted
    /\ thrown => c \in Guarded /\ subscribes(c, user)
    /\ mounted' = mounted \cup {c}
    /\ unsubscribe' =
          [unsubscribe EXCEPT ![c] = IF subscribes(c, user) /\ ~thrown THEN "handle" ELSE undefined]
    /\ listeners' = [listeners EXCEPT ![c] = IF subscribes(c, user) /\ ~thrown THEN @ + 1 ELSE @]
    /\ error' = IF thrown THEN msgSetup[c] ELSE IF subscribes(c, user) THEN null ELSE error
    /\ UNCHANGED <<user, timers, mapVars, resumeVars, profileVars, portalVars>>

\* The unmount of a component: the cleanup of its effect.
unmount(c) ==
    /\ c \in mounted
    /\ mounted' = mounted \ {c}
    /\ listeners' = [listeners EXCEPT ![c] = cleanup(unsubscribe[c], @)]
    /\ unsubscribe' = [unsubscribe EXCEPT ![c] = undefined]
    /\ UNCHANGED <<user, alertVars, mapVars, resumeVars, profileVars, portalVars>>

\* onAuthStateChanged, page.tsx lines 92 to 95: setUser.  The fetch
\* functions that depend on user or on user.uid are new ones, so the
\* effects of the mounted components that use them clean up and run again.
\* failing are the components whose onSnapshot throws.
authStateChanged(u, failing) ==
    LET rerun == mounted \cap NeedsUser
        opens(c) == subscribes(c, u) /\ c \notin failing
    IN  /\ u # user
        /\ failing \subseteq rerun \cap Guarded
        /\ failing # {} => u # null
        /\ user' = u
        /\ listeners' =
              [c \in Components |->
                  IF c \in rerun
                  THEN cleanup(unsubscribe[c], listeners[c]) + (IF opens(c) THEN 1 ELSE 0)
                  ELSE listeners[c]]
        /\ unsubscribe' =
              [c \in Components |->
                  IF c \in rerun
                  THEN IF opens(c) THEN "handle" ELSE undefined
                  ELSE unsubscribe[c]]
        /\ IF failing # {} THEN error' \in {msgSetup[c] : c \in failing}
           ELSE IF rerun # {} /\ u # null THEN error' = null
           ELSE error' = error
        /\ UNCHANGED <<mounted, timers, mapVars, resumeVars, profileVars, portalVars>>

\* The error callback of a listener of SavedJobs, Applications or
\* JobPostingManager; the store drops a listener it has reported an error
\* to.
listenerFailed(c) ==
    /\ c \in NeedsUser
    /\ listeners[c] > 0
    /\ listeners' = [listeners EXCEPT ![c] = @ - 1]
    /\ error' = msgFailed[c]
    /\ UNCHANGED <<user, mounted, unsubscribe, timers, mapVars, resumeVars, profileVars, portalVars>>

NextSubscriptions ==
    \/ \E thrown \in BOOLEAN, hasGeolocation \in BOOLEAN : mountMapView(thrown, hasGeolocation)
    \/ \E c \in NeedsUser, thrown \in BOOLEAN : mount(c, thrown)
    \/ \E c \in Components : unmount(c)
    \/ \E u \in Users \cup {null}, failing \in SUBSET Guarded : authStateChanged(u, failing)
    \/ \E c \in NeedsUser : listenerFailed(c)
    \/ snapshotError

SpecSubscriptions == Init /\ [][NextSubscriptions]_vars

---------------------------------------------------------------------------
(* createInitialUserData (page.tsx lines 962 to 992) called for one uid by  *)
(* the registration form and by getInitialUserData of the dashboard.  A     *)
(* call is at "getDoc" while it awaits getDoc, at "setDoc" while it awaits  *)
(* setDoc, and at "done" when its promise is resolved; the store serves     *)
(* the requests one at a time, in any order.                                *)

\* Latest time of the store's clock.
MaxClock == 3

\* The display names and the e-mail addresses a caller passes.
\* handleRegister passes `${firstName} ${lastName}` and user.email,
\* handleGoogleRegister what the provider holds, possibly null;
\* getInitialUserData passes auth.currentUser?.displayName || 'Job Seeker'
\* and auth.currentUser?.email || 'N/A'.
DisplayNames(k) == IF k = "register" THEN {"Jane Doe", null} ELSE {"Jane Doe", "Job Seeker"}

Emails(k) == IF k = "register" THEN {"jane@example.com", null} ELSE {"jane@example.com", "N/A"}

\* The data of setDoc, lines 972 to 983.
initialUserData(displayName, email, timestamp) ==
    [ exists      |-> TRUE,
      displayName |-> IF displayName # null /\ displayName # "" THEN displayName ELSE "New User",
      email       |-> IF email # null /\ email # "" THEN email ELSE "",
      createdAt   |-> timestamp,
      jobData     |-> [jobsApplied |-> 0, savedJobs |-> 0, interviews |-> 0, newMatches |-> 0] ]

\* setDoc(ref, data, { merge: true }): the fields of data replace those of
\* the document, the other fields of the document stay.
setDocMerge(document, data) ==
    [f \in DOMAIN document \cup DOMAIN data |-> IF f \in DOMAIN data THEN data[f] ELSE document[f]]

\* if (!userSnap.exists()): where the call k goes on the result of getDoc.
afterGetDoc(k, snapshot) == IF ~snapshot.exists THEN "setDoc" ELSE "done"

\* The call createInitialUserData(uid, displayName, email), up to await
\* getDoc(userRef).
createInitialUserData(k, displayName, email) ==
    /\ calls[k].pc = "idle"
    /\ calls' = [calls EXCEPT ![k] = [pc |-> "getDoc", displayName |-> displayName, email |-> email]]
    /\ UNCHANGED <<profile, now>>
    /\ UNCHANGED <<resumeVars, mapVars, alertVars, subscriptionVars, portalVars>>

\* getDoc resolves with the document as it is; the call goes on to
\* await setDoc(...) or returns.
getDocResolved(k) ==
    /\ calls[k].pc = "getDoc"
    /\ calls' = [calls EXCEPT ![k].pc = afterGetDoc(k, profile)]
    /\ UNCHANGED <<profile, now>>
    /\ UNCHANGED <<resumeVars, mapVars, alertVars, subscriptionVars, portalVars>>

\* The store applies the setDoc of the call k, serverTimestamp() being the
\* time of the store, and the call returns.
setDocResolved(k) ==
    /\ calls[k].pc = "setDoc"
    /\ profile' = setDocMerge(profile, initialUserData(calls[k].displayName, calls[k].email, now))
    /\ calls' = [calls EXCEPT ![k].pc = "done"]
    /\ UNCHANGED now
    /\ UNCHANGED <<resumeVars, mapVars, alertVars, subscriptionVars, portalVars>>

\* getDoc or setDoc rejects: catch (error) logs, and the call returns.
requestRejected(k) ==
    /\ calls[k].pc \in {"getDoc", "setDoc"}
    /\ calls' = [calls EXCEPT ![k].pc = "done"]
    /\ UNCHANGED <<profile, now>>
    /\ UNCHANGED <<resumeVars, mapVars, alertVars, subscriptionVars, portalVars>>

\* The caller has its result and may call again: the form is submitted
\* again, the dashboard is loaded again.
returned(k) ==
    /\ calls[k].pc = "done"
    /\ calls' = [calls EXCEPT ![k] = [pc |-> "idle", displayName |-> null, email |-> null]]
    /\ UNCHANGED <<profile, now>>
    /\ UNCHANGED <<resumeVars, mapVars, alertVars, subscriptionVars, portalVars>>

\* Time passes at the store.
tick ==
    /\ now < MaxClock
    /\ now' = now + 1
    /\ UNCHANGED <<profile, calls>>
    /\ UNCHANGED <<resumeVars, mapVars, alertVars, subscriptionVars, portalVars>>

NextProfile ==
    \/ \E k \in Callers :
          \E displayName \in DisplayNames(k), email \in Emails(k) :
              createInitialUserData(k, displayName, email)
    \/ \E k \in Callers : getDocResolved(k)
    \/ \E k \in Callers : setDocResolved(k)
    \/ \E k \in Callers : requestRejected(k)
    \/ \E k \in Callers : returned(k)
    \/ tick

SpecProfile == Init /\ [][NextProfile]_vars

---------------------------------------------------------------------------
(* CompanyDashboard (src/unnamed/part_002) and CreateJobPosting             *)
(* (src/app/company/CreateJobPosting.tsx): handlePostJob adds a document to *)
(* jobPostings, writes the counter of the company and reports to the        *)
(* dashboard, which loads the company data again.  A call of handlePostJob  *)
(* is at "addDoc" while it awaits addDoc and at "setDoc" while it awaits    *)
(* setDoc.  reports[n] is what the n-th call reported; a posting carries    *)
(* the number of the call that added it.                                    *)

\* Most calls of handlePostJob.
MaxPosts == 3

\* Most calls of loadCompanyData in progress.
MaxLoads == 2

msgMustLogIn == "You must be logged in to post a job."

msgPostFailed == "Failed to post job: "

\* The items of CompanySidebar.
Menus == {"dashboard", "jobPostings", "newJob", "candidates", "settings"}

\* (prev => prev + 1)(0) of CreateJobPosting line 221: the function is
\* applied to 0, whatever the stored document holds.
postedCount(stored) == 0 + 1

\* getCompanyData, part_002 lines 45 to 58: the data of the document, or
\* the fallback of a new account.
getCompanyData(stored) ==
    [loaded |-> TRUE, jobPostings |-> IF stored.exists THEN stored.jobPostings ELSE 0]

\* companyData?.jobPostings || 0, the value of the card 'Active Postings'.
activePostings == IF companyData.loaded THEN companyData.jobPostings ELSE 0

\* The calls of handlePostJob, by number, that reported r.
reported(r) == {n \in 1..Len(reports) : reports[n] = r}

outsidePost ==
    <<resumeVars, mapVars, subscriptionVars, profileVars, authVars, registerVars, searchVars>>

\* An item of the sidebar is clicked.  CreateJobPosting is mounted with
\* isSubmitting false when the item is 'newJob'.
setCurrentMenu(menu) ==
    /\ menu # currentMenu
    /\ currentMenu' = menu
    /\ post' = IF menu = "newJob" THEN [post EXCEPT !.isSubmitting = FALSE] ELSE post
    /\ UNCHANGED <<jobPostings, companies, companyData, loads, reports>>
    /\ UNCHANGED <<alertVars, outsidePost>>

\* 'Post Job Now' is clicked: handlePostJob up to await addDoc.  Without a
\* user it reports the failure and returns.
handlePostJob ==
    /\ currentMenu = "newJob"
    /\ ~post.isSubmitting
    /\ post.pc = "idle"
    /\ Len(reports) < MaxPosts
    /\ IF user = null
       THEN /\ reports' = Append(reports, "error")
            /\ error' = setError(msgMustLogIn, TRUE, timers).error
            /\ UNCHANGED post
       ELSE /\ reports' = Append(reports, "none")
            /\ error' = null
            /\ post' = [pc |-> "addDoc", isSubmitting |-> TRUE]
    /\ UNCHANGED <<jobPostings, companies, companyData, currentMenu, loads>>
    /\ UNCHANGED <<timers, outsidePost>>

\* addDoc resolves: the posting is stored, and the call awaits setDoc.
addDocResolved ==
    /\ post.pc = "addDoc"
    /\ jobPostings' = Append(jobPostings, [companyId |-> user, call |-> Len(reports)])
    /\ post' = [post EXCEPT !.pc = "setDoc"]
    /\ UNCHANGED <<companies, companyData, currentMenu, loads, reports>>
    /\ UNCHANGED <<alertVars, outsidePost>>

\* setDoc resolves: the counter is written, onPostSuccess is called, which
\* is handleJobPostSuccess, and isSubmitting is reset.
setDocCounterResolved ==
    /\ post.pc = "setDoc"
    /\ loads < MaxLoads
    /\ companies' = [exists |-> TRUE, jobPostings |-> postedCount(companies)]
    /\ reports' = [reports EXCEPT ![Len(reports)] = "success"]
    /\ currentMenu' = "jobPostings"
    /\ loads' = loads + 1
    /\ post' = [pc |-> "idle", isSubmitting |-> FALSE]
    /\ UNCHANGED <<jobPostings, companyData>>
    /\ UNCHANGED <<alertVars, outsidePost>>

\* addDoc or setDoc rejects: catch calls onPostError, which is
\* handleJobPostError, and isSubmitting is reset.
postRejected ==
    /\ post.pc \in {"addDoc", "setDoc"}
    /\ reports' = [reports EXCEPT ![Len(reports)] = "error"]
    /\ error' = setError(msgPostFailed, TRUE, timers).error
    /\ post' = [pc |-> "idle", isSubmitting |-> FALSE]
    /\ UNCHANGED <<jobPostings, companies, companyData, currentMenu, loads>>
    /\ UNCHANGED <<timers, outsidePost>>

\* getDoc of a call of loadCompanyData resolves: setCompanyData(data).
loadCompanyDataResolved ==
    /\ loads > 0
    /\ loads' = loads - 1
    /\ companyData' = getCompanyData(companies)
    /\ UNCHANGED <<jobPostings, companies, currentMenu, post, reports>>
    /\ UNCHANGED <<alertVars, outsidePost>>

\* A company is signed in and CompanyDashboard is mounted: its effect has
\* called loadCompanyData.  The company is registered, with the document
\* of createInitialCompanyData, or new to the collection.
InitPost ==
    /\ jobPostings = <<>>
    /\ companies \in {noCompany, [exists |-> TRUE, jobPostings |-> 0]}
    /\ companyData = noCompanyData
    /\ currentMenu = "dashboard"
    /\ loads = 1
    /\ post = [pc |-> "idle", isSubmitting |-> FALSE]
    /\ reports = <<>>
    /\ currentUser = [uid |-> "u1", isAnonymous |-> FALSE]
    /\ isAnonymous = FALSE
    /\ authLoading = FALSE
    /\ authView = "login"
    /\ login = [pc |-> "idle", isSubmitting |-> FALSE]
    /\ logout = "idle"
    /\ RegisterInit
    /\ SearchInit
    /\ MapInit
    /\ AlertInit
    /\ user = "u1"
    /\ mounted = {}
    /\ unsubscribe = [c \in Components |-> undefined]
    /\ listeners = [c \in Components |-> 0]
    /\ ProfileInit
    /\ resumeData = initialResumeData
    /\ selectedTemplate = templates[1]
    /\ step = 1
    /\ edits = 0

NextPost ==
    \/ \E menu \in Menus : setCurrentMenu(menu)
    \/ handlePostJob
    \/ addDocResolved
    \/ setDocCounterResolved
    \/ postRejected
    \/ loadCompanyDataResolved

SpecPost == InitPost /\ [][NextPost]_vars

---------------------------------------------------------------------------
(* AuthProvider, AuthComponent, Dashboard and CompanyDashboard              *)
(* (src/app/page.tsx, src/unnamed/part_002): which view is rendered for    *)
(* the user held in state, the sign-in and sign-out handlers and the       *)
(* alert they write.  The authentication service reports a change of       *)
(* auth.currentUser to the callback of onAuthStateChanged, some time       *)
(* after the change.                                                       *)

msgLoginOk == "Login successful! Redirecting to Dashboard."
msgLoginFailed == "Login failed: Invalid credentials"
msgSignedOut ==
    [Dashboard |-> "You have successfully signed out.",
     CompanyDashboard |-> "You have successfully signed out of the Company Portal."]
msgSignOutFailed == "Failed to sign out. Please try again."

\* The messages written with isError true (the default of setError).
ErrorMessages == {msgLoginFailed, msgSignOutFailed}

Portals == {"Dashboard", "CompanyDashboard"}

\* What Dashboard returns: AuthComponent for no user or an anonymous one,
\* the sidebar and the content otherwise.
Dashboard ==
    IF user = null \/ isAnonymous THEN "AuthComponent" ELSE "dashboard"

\* What AuthComponent, the root of the tree, returns.
AuthComponent ==
    IF authLoading THEN "spinner"
    ELSE IF user # null /\ ~isAnonymous THEN Dashboard
    ELSE authView

\* CompanyDashboard with the test of line 446 reduced to !user.
CompanyDashboard_anyUser ==
    IF user = null THEN "pleaseLogIn" ELSE "companyDashboard"

\* What CompanyDashboard returns.
CompanyDashboard ==
    IF user = null \/ isAnonymous THEN "pleaseLogIn" ELSE "companyDashboard"

outsideAuth ==
    <<resumeVars, mapVars, profileVars, postVars, registerVars, searchVars, mounted,
      unsubscribe, listeners>>

\* The callback of onAuthStateChanged: setUser(currentUser),
\* setLoading(false).
onAuthStateChanged ==
    /\ authLoading \/ user # currentUser.uid \/ isAnonymous # currentUser.isAnonymous
    /\ user' = currentUser.uid
    /\ isAnonymous' = currentUser.isAnonymous
    /\ authLoading' = FALSE
    /\ UNCHANGED <<currentUser, authView, login, logout, alertVars, outsideAuth>>

\* 'Register' or 'Login' under the card: setAuthView.
setAuthView(view) ==
    /\ AuthComponent \in {"login", "register"}
    /\ view # authView
    /\ authView' = view
    /\ UNCHANGED <<currentUser, isAnonymous, authLoading, login, logout, user, alertVars,
                   outsideAuth>>

\* The form of LoginCard is submitted: handleLogin up to the await.
handleLogin ==
    /\ AuthComponent = "login"
    /\ login = [pc |-> "idle", isSubmitting |-> FALSE]
    /\ error' = null
    /\ login' = [pc |-> "signIn", isSubmitting |-> TRUE]
    /\ UNCHANGED <<currentUser, isAnonymous, authLoading, authView, logout, user, timers,
                   outsideAuth>>

\* signInWithEmailAndPassword resolves: the service holds the user, the
\* handler writes the success message.
signInResolved(u) ==
    /\ login.pc = "signIn"
    /\ timers < MaxTimers
    /\ currentUser' = [uid |-> u, isAnonymous |-> FALSE]
    /\ error' = setError(msgLoginOk, FALSE, timers).error
    /\ timers' = setError(msgLoginOk, FALSE, timers).timers
    /\ login' = [pc |-> "idle", isSubmitting |-> FALSE]
    /\ UNCHANGED <<isAnonymous, authLoading, authView, logout, user, outsideAuth>>

\* signInWithEmailAndPassword rejects.
signInRejected ==
    /\ login.pc = "signIn"
    /\ error' = setError(msgLoginFailed, TRUE, timers).error
    /\ login' = [pc |-> "idle", isSubmitting |-> FALSE]
    /\ UNCHANGED <<currentUser, isAnonymous, authLoading, authView, logout, user, timers,
                   outsideAuth>>

\* 'Logout' in the sidebar of a dashboard: handleLogout up to the await.
handleLogout(portal) ==
    /\ IF portal = "Dashboard" THEN AuthComponent = "dashboard"
       ELSE CompanyDashboard = "companyDashboard"
    /\ logout = "idle"
    /\ logout' = portal
    /\ UNCHANGED <<currentUser, isAnonymous, authLoading, authView, login, user, alertVars,
                   outsideAuth>>

\* signOut resolves: nobody is signed in; clearError, then the success
\* message.
signOutResolved ==
    /\ logout \in Portals
    /\ timers < MaxTimers
    /\ currentUser' = noUser
    /\ error' = setError(msgSignedOut[logout], FALSE, timers).error
    /\ timers' = setError(msgSignedOut[logout], FALSE, timers).timers
    /\ logout' = "idle"
    /\ UNCHANGED <<isAnonymous, authLoading, authView, login, user, outsideAuth>>

\* signOut rejects.
signOutRejected ==
    /\ logout \in Portals
    /\ error' = setError(msgSignOutFailed, TRUE, timers).error
    /\ logout' = "idle"
    /\ UNCHANGED <<currentUser, isAnonymous, authLoading, authView, login, user, timers,
                   outsideAuth>>

\* The close button of CustomAlert: clearError.
clearError ==
    /\ error # null
    /\ error' = null
    /\ UNCHANGED <<timers, authVars, subscriptionVars, outsideAuth>>

\* The page is opened.  The service restores the session the browser
\* kept: nobody, a user, or an anonymous user of a session kept from
\* signInAnonymously.
InitAuth ==
    /\ currentUser \in {noUser, [uid |-> "u1", isAnonymous |-> FALSE],
                        [uid |-> "u1", isAnonymous |-> TRUE]}
    /\ user = null
    /\ isAnonymous = FALSE
    /\ authLoading = TRUE
    /\ authView = "login"
    /\ login = [pc |-> "idle", isSubmitting |-> FALSE]
    /\ logout = "idle"
    /\ mounted = {}
    /\ unsubscribe = [c \in Components |-> undefined]
    /\ listeners = [c \in Components |-> 0]
    /\ AlertInit
    /\ MapInit
    /\ ProfileInit
    /\ PostInit
    /\ RegisterInit
    /\ SearchInit
    /\ resumeData = initialResumeData
    /\ selectedTemplate = templates[1]
    /\ step = 1
    /\ edits = 0

NextAuth ==
    \/ onAuthStateChanged
    \/ \E view \in {"login", "register"} : setAuthView(view)
    \/ handleLogin
    \/ \E u \in Users : signInResolved(u)
    \/ signInRejected
    \/ \E portal \in Portals : handleLogout(portal)
    \/ signOutResolved
    \/ signOutRejected
    \/ clearError
    \/ dismissTimer

SpecAuth == InitAuth /\ [][NextAuth]_vars

---------------------------------------------------------------------------
(* RegisterCard (src/app/page.tsx) and CompanyRegisterCard                  *)
(* (src/unnamed/part_002): handleRegister, its two tests of the password   *)
(* and its three requests.                                                 *)

MaxAttempts == 3

msgPasswordShort == "Password must be at least 8 characters."
msgPasswordsDiffer == "Passwords do not match."
msgRegistered ==
    [RegisterCard |-> "Account created successfully! You are now logged in.",
     CompanyRegisterCard |->
         "Company Account created successfully! You are now logged in."]
msgRegistrationFailed == "Registration failed: An unknown error occurred"

\* What the password fields hold at a submission: seven characters, eight
\* characters, and eight characters that differ from the former in case.
Passwords ==
    { <<"p", "a", "s", "s", "w", "o", "r">>,
      <<"p", "a", "s", "s", "w", "o", "r", "d">>,
      <<"P", "a", "s", "s", "w", "o", "r", "d">> }

\* The uid the service gives the account created from a card.
uidOf == [RegisterCard |-> "u1", CompanyRegisterCard |-> "u2"]

\* The two tests with the second one left out.
rejection_lengthOnly(password, confirmPassword) ==
    IF Len(password) < 8 THEN msgPasswordShort
    ELSE null

\* The message of the test that makes handleRegister return early, null
\* when both tests pass.
rejection(password, confirmPassword) ==
    IF Len(password) < 8 THEN msgPasswordShort
    ELSE IF password # confirmPassword THEN msgPasswordsDiffer
    ELSE null

outsideRegister ==
    <<resumeVars, mapVars, profileVars, postVars, searchVars, subscriptionVars, isAnonymous,
      authLoading, authView, login, logout>>

\* The form of a card is submitted: handleRegister up to its return or to
\* await createUserWithEmailAndPassword.  RegisterCard is rendered by
\* AuthComponent; the component that renders CompanyRegisterCard is not
\* part of the sources.
handleRegister(card, password, confirmPassword) ==
    /\ card = "RegisterCard" => AuthComponent = "register"
    /\ register[card].pc = "idle"
    /\ ~register[card].isSubmitting
    /\ attempts["RegisterCard"] + attempts["CompanyRegisterCard"] < MaxAttempts
    /\ attempts' = [attempts EXCEPT ![card] = @ + 1]
    /\ IF rejection(password, confirmPassword) # null
       THEN /\ error' = setError(rejection(password, confirmPassword), TRUE, timers).error
            /\ register' = [register EXCEPT ![card] =
                               [pc |-> "idle", isSubmitting |-> FALSE,
                                password |-> password,
                                confirmPassword |-> confirmPassword]]
       ELSE /\ error' = null
            /\ register' = [register EXCEPT ![card] =
                               [pc |-> "createUser", isSubmitting |-> TRUE,
                                password |-> password,
                                confirmPassword |-> confirmPassword]]
    /\ UNCHANGED <<accounts, documents, currentUser, timers, outsideRegister>>

\* createUserWithEmailAndPassword resolves: the account exists and is
\* signed in; updateProfile, then the call that writes the initial
\* document.
createUserResolved(card) ==
    /\ register[card].pc = "createUser"
    /\ accounts' = accounts \cup {[uid |-> uidOf[card], password |-> register[card].password]}
    /\ currentUser' = [uid |-> uidOf[card], isAnonymous |-> FALSE]
    /\ register' = [register EXCEPT ![card].pc = "createInitialData"]
    /\ UNCHANGED <<documents, attempts, alertVars, outsideRegister>>

\* createInitialUserData or createInitialCompanyData resolves: the success
\* message, then finally.
initialDataResolved(card) ==
    /\ register[card].pc = "createInitialData"
    /\ timers < MaxTimers
    /\ documents' = documents \cup {uidOf[card]}
    /\ error' = setError(msgRegistered[card], FALSE, timers).error
    /\ timers' = setError(msgRegistered[card], FALSE, timers).timers
    /\ register' = [register EXCEPT ![card].pc = "idle", ![card].isSubmitting = FALSE]
    /\ UNCHANGED <<accounts, attempts, currentUser, outsideRegister>>

\* One of the requests rejects: catch, then finally.
registerRejected(card) ==
    /\ register[card].pc \in {"createUser", "createInitialData"}
    /\ error' = setError(msgRegistrationFailed, TRUE, timers).error
    /\ register' = [register EXCEPT ![card].pc = "idle", ![card].isSubmitting = FALSE]
    /\ UNCHANGED <<accounts, documents, attempts, currentUser, timers, outsideRegister>>

\* AuthComponent showing RegisterCard, nobody signed in.
InitRegister ==
    /\ RegisterInit
    /\ currentUser = noUser
    /\ user = null
    /\ isAnonymous = FALSE
    /\ authLoading = FALSE
    /\ authView = "register"
    /\ login = [pc |-> "idle", isSubmitting |-> FALSE]
    /\ logout = "idle"
    /\ mounted = {}
    /\ unsubscribe = [c \in Components |-> undefined]
    /\ listeners = [c \in Components |-> 0]
    /\ AlertInit
    /\ MapInit
    /\ ProfileInit
    /\ PostInit
    /\ SearchInit
    /\ resumeData = initialResumeData
    /\ selectedTemplate = templates[1]
    /\ step = 1
    /\ edits = 0

NextRegister ==
    \/ \E card \in Cards : \E password \in Passwords : \E confirmPassword \in Passwords :
          handleRegister(card, password, confirmPassword)
    \/ \E card \in Cards : createUserResolved(card)
    \/ \E card \in Cards : initialDataResolved(card)
    \/ \E card \in Cards : registerRejected(card)
    \/ onAuthStateChanged
    \/ dismissTimer

SpecRegister == InitRegister /\ [][NextRegister]_vars

---------------------------------------------------------------------------
(* JobSearch (src/app/components/Applications.tsx) and the details modal    *)
(* of MapView (src/unnamed/part_001): the snapshot callback of fetchJobs,  *)
(* which awaits two queries before it writes the list, and the two         *)
(* handleApply.  A posting is identified by its position in jobPostings.   *)
(* The fields submittedBy and component of an application are not fields   *)
(* of the stored document: they record who submitted it and from where.    *)

MaxSnapshots == 2
MaxApplications == 2

msgApplied == "Application submitted for "
msgApplyFailed ==
    "Failed to submit application. Ensure permissions are set for jobApplications."
msgMapApplyFailed == "Failed to submit job application."

\* A posting of another company, added to the store.
posting == [companyId |-> "u2", call |-> 0]

\* jobSnapshot.docs of the query ordered by createdAt, descending, when
\* the collection holds n postings.
snapshotDocs(n) == [i \in 1..n |-> n + 1 - i]

\* The documents of jobApplications with userId equal to uid: the query of
\* Applications.fetchApplications and of the snapshot callback.
appliedQuery(uid) ==
    {n \in 1..Len(jobApplications) : jobApplications[n].userId = uid}

\* What Applications shows for the user: one row per document of the query.
fetchedApps(uid) == [n \in appliedQuery(uid) |-> jobApplications[n].jobId]

\* new Set(appliedSnapshot.docs.map(doc => doc.data().jobId)).
currentAppliedIds(uid) == {jobApplications[n].jobId : n \in appliedQuery(uid)}

\* fetchedJobs of a snapshot of n postings.
fetchedJobList(n, savedIds, appliedIds) ==
    [i \in 1..n |->
        [id |-> snapshotDocs(n)[i],
         isSaved |-> snapshotDocs(n)[i] \in savedIds,
         isApplied |-> snapshotDocs(n)[i] \in appliedIds]]

\* The ids of the cards JobSearch renders.
displayed == {jobs[i].id : i \in 1..Len(jobs)}

\* The document written by handleApply of JobSearch.
searchApplication(job) ==
    [userId |-> user, jobId |-> job, submittedBy |-> user, component |-> "JobSearch"]

\* The document written by handleApply of MapView: no userId.
mapApplication(job) ==
    [userId |-> undefined, jobId |-> job, submittedBy |-> user, component |-> "MapView"]

\* The sequence without its element at position i.
without(seq, i) == [k \in 1..(Len(seq) - 1) |-> IF k < i THEN seq[k] ELSE seq[k + 1]]

outsideSearch ==
    <<resumeVars, mapVars, subscriptionVars, profileVars, authVars, registerVars, companies,
      companyData, currentMenu, loads, post, reports>>

\* A company adds a posting; the listener of JobSearch receives the next
\* snapshot and its callback runs up to the first await.
jobSnapshot ==
    /\ Len(jobPostings) < MaxSnapshots
    /\ jobPostings' = Append(jobPostings, posting)
    /\ callbacks' = callbacks \cup
          {[docs |-> Len(jobPostings) + 1, pc |-> "getSaved", currentSavedIds |-> {}]}
    /\ UNCHANGED <<jobApplications, userSavedJobs, jobs, savedJobIds, appliedJobIds,
                   searchLoading, requests, modal, alertVars, outsideSearch>>

\* getDocs(savedQuery) of a callback resolves: setSavedJobIds, then the
\* callback runs up to the second await.
getSavedResolved(cb) ==
    /\ cb \in callbacks
    /\ cb.pc = "getSaved"
    /\ savedJobIds' = userSavedJobs
    /\ callbacks' = (callbacks \ {cb}) \cup
          {[cb EXCEPT !.pc = "getApplied", !.currentSavedIds = userSavedJobs]}
    /\ UNCHANGED <<jobPostings, jobApplications, userSavedJobs, jobs, appliedJobIds,
                   searchLoading, requests, modal, alertVars, outsideSearch>>

\* getDocs(appliedQuery) of a callback resolves: setAppliedJobIds,
\* setJobs(fetchedJobs), setLoading(false).
getAppliedResolved(cb) ==
    /\ cb \in callbacks
    /\ cb.pc = "getApplied"
    /\ appliedJobIds' = currentAppliedIds(user)
    /\ jobs' = fetchedJobList(cb.docs, cb.currentSavedIds, currentAppliedIds(user))
    /\ searchLoading' = FALSE
    /\ callbacks' = callbacks \ {cb}
    /\ UNCHANGED <<jobPostings, jobApplications, userSavedJobs, savedJobIds, requests,
                   modal, alertVars, outsideSearch>>

\* 'Apply Now' of a card of JobSearch, enabled while the job is not in
\* appliedJobIds: handleApply up to await addDoc.
handleApply(job) ==
    /\ ~searchLoading
    /\ job \in displayed
    /\ job \notin appliedJobIds
    /\ user # null
    /\ Len(jobApplications) + Len(requests) < MaxApplications
    /\ error' = null
    /\ requests' = Append(requests, searchApplication(job))
    /\ UNCHANGED <<jobPostings, jobApplications, userSavedJobs, jobs, savedJobIds,
                   appliedJobIds, searchLoading, callbacks, modal, timers, outsideSearch>>

\* 'View details' of a marker of the map: setSelectedJob.
setSelectedJob(job) ==
    /\ modal.selectedJob = noJob
    /\ job \in 1..Len(jobPostings)
    /\ modal' = [modal EXCEPT !.selectedJob = job]
    /\ UNCHANGED <<jobPostings, jobApplications, userSavedJobs, jobs, savedJobIds,
                   appliedJobIds, searchLoading, callbacks, requests, alertVars,
                   outsideSearch>>

\* The close button of the modal: setSelectedJob(null), setApplied(false).
closeModal ==
    /\ modal.selectedJob # noJob
    /\ modal' = [modal EXCEPT !.selectedJob = noJob, !.applied = FALSE]
    /\ UNCHANGED <<jobPostings, jobApplications, userSavedJobs, jobs, savedJobIds,
                   appliedJobIds, searchLoading, callbacks, requests, alertVars,
                   outsideSearch>>

\* 'Apply Now' of the modal, shown while applied is false and enabled
\* while applying is false: handleApply of MapView up to await addDoc.
handleApplyMapView ==
    /\ modal.selectedJob # noJob
    /\ ~modal.applied
    /\ ~modal.applying
    /\ Len(jobApplications) + Len(requests) < MaxApplications
    /\ modal' = [modal EXCEPT !.applying = TRUE]
    /\ requests' = Append(requests, mapApplication(modal.selectedJob))
    /\ UNCHANGED <<jobPostings, jobApplications, userSavedJobs, jobs, savedJobIds,
                   appliedJobIds, searchLoading, callbacks, alertVars, outsideSearch>>

\* addDoc of a handleApply resolves: the document is stored and the
\* handler goes on.
applyResolved(i) ==
    /\ i \in 1..Len(requests)
    /\ jobApplications' = Append(jobApplications, requests[i])
    /\ requests' = without(requests, i)
    /\ IF requests[i].component = "JobSearch"
       THEN /\ timers < MaxTimers
            /\ appliedJobIds' = appliedJobIds \cup {requests[i].jobId}
            /\ error' = setError(msgApplied, FALSE, timers).error
            /\ timers' = setError(msgApplied, FALSE, timers).timers
            /\ UNCHANGED modal
       ELSE /\ modal' = [modal EXCEPT !.applied = TRUE, !.applying = FALSE]
            /\ UNCHANGED <<appliedJobIds, alertVars>>
    /\ UNCHANGED <<jobPostings, userSavedJobs, jobs, savedJobIds, searchLoading, callbacks,
                   outsideSearch>>

\* addDoc of a handleApply rejects: catch.
applyRejected(i) ==
    /\ i \in 1..Len(requests)
    /\ requests' = without(requests, i)
    /\ IF requests[i].component = "JobSearch"
       THEN /\ error' = setError(msgApplyFailed, TRUE, timers).error
            /\ UNCHANGED modal
       ELSE /\ error' = setError(msgMapApplyFailed, TRUE, timers).error
            /\ modal' = [modal EXCEPT !.applying = FALSE]
    /\ UNCHANGED <<jobPostings, jobApplications, userSavedJobs, jobs, savedJobIds,
                   appliedJobIds, searchLoading, callbacks, timers, outsideSearch>>

\* JobSearch and MapView mounted for a signed-in user; the store holds one
\* posting and the listener of JobSearch has received its first snapshot.
InitSearch ==
    /\ jobPostings = <<posting>>
    /\ jobApplications = <<>>
    /\ userSavedJobs \in {{}, {1}}
    /\ jobs = <<>>
    /\ savedJobIds = {}
    /\ appliedJobIds = {}
    /\ searchLoading = TRUE
    /\ callbacks = {[docs |-> 1, pc |-> "getSaved", currentSavedIds |-> {}]}
    /\ requests = <<>>
    /\ modal = [selectedJob |-> noJob, applying |-> FALSE, applied |-> FALSE]
    /\ companies = noCompany
    /\ companyData = noCompanyData
    /\ currentMenu = "dashboard"
    /\ loads = 0
    /\ post = [pc |-> "idle", isSubmitting |-> FALSE]
    /\ reports = <<>>
    /\ currentUser = [uid |-> "u1", isAnonymous |-> FALSE]
    /\ user = "u1"
    /\ isAnonymous = FALSE
    /\ authLoading = FALSE
    /\ authView = "login"
    /\ login = [pc |-> "idle", isSubmitting |-> FALSE]
    /\ logout = "idle"
    /\ mounted = {}
    /\ unsubscribe = [c \in Components |-> undefined]
    /\ listeners = [c \in Components |-> 0]
    /\ RegisterInit
    /\ AlertInit
    /\ MapInit
    /\ ProfileInit
    /\ resumeData = initialResumeData
    /\ selectedTemplate = templates[1]
    /\ step = 1
    /\ edits = 0

NextSearch ==
    \/ jobSnapshot
    \/ \E cb \in callbacks : getSavedResolved(cb)
    \/ \E cb \in callbacks : getAppliedResolved(cb)
    \/ \E job \in 1..MaxSnapshots : handleApply(job)
    \/ \E job \in 1..MaxSnapshots : setSelectedJob(job)
    \/ closeModal
    \/ handleApplyMapView
    \/ \E i \in 1..MaxApplications : applyResolved(i)
    \/ \E i \in 1..MaxApplications : applyRejected(i)
    \/ dismissTimer

SpecSearch == InitSearch /\ [][NextSearch]_vars

---------------------------------------------------------------------------
(* Properties                                                              *)

\* C1: for every resume, the all-empty one included, and every template,
\* calculateATSScore returns an integer between 0 and 100.
C1_ScoreInRange == atsScore \in 0..100

EmptyContent(data) ==
    /\ data.summary = <<>>
    /\ data.experience = <<>>
    /\ data.education = <<>>
    /\ data.skills.technical = <<>>
    /\ data.skills.soft = <<>>

\* The all-empty resume scored under the penalised template.
C1_Witness ==
    /\ EmptyContent(resumeData)
    /\ \A f \in {"jobTitle", "name", "phone", "email", "linkedin"} : resumeData[f] = <<>>
    /\ selectedTemplate = "anti"
    /\ step = 2
    /\ atsScore = 40

\* C2: the score under template 'anti' is the score of the same resume under
\* 'professional' minus exactly 15, hence never above it; the final clamp
\* does not shrink the difference.
C2_AntiFifteenBelowProfessional ==
    selectedTemplate = "anti" =>
        /\ atsScore = calculateATSScore(resumeData, "professional") - 15
        /\ atsScore <= calculateATSScore(resumeData, "professional")

\* The highest-scoring resume of the family, under 'anti'.
C2_Witness ==
    /\ selectedTemplate = "anti"
    /\ step = 2
    /\ atsScore = 76
    /\ calculateATSScore(resumeData, "professional") = 91

\* C3 as claimed: inserting an action verb anywhere in a scored text field
\* never lowers the score.
C3_InsertedVerbNeverLowersScore ==
    \A f \in ScoredFields(resumeData) :
        \A p \in 0..Len(FieldText(resumeData, f)), n \in 1..Len(actionVerbs) :
            ScoreAfterInsert(f, p, n) >= atsScore

\* C3: inserting an action verb into a scored text field never lowers the
\* score when the insertion point neither splits an occurrence of an action
\* verb nor separates a digit from the '+', '%', 'x', 'k' or white space that
\* follows it in the concatenation.
C3_InsertedVerbAtCleanPointNeverLowersScore ==
    \A f \in ScoredFields(resumeData) :
        \A p \in 0..Len(FieldText(resumeData, f)), n \in 1..Len(actionVerbs) :
            CleanInsertionPoint(resumeData, f, p) => ScoreAfterInsert(f, p, n) >= atsScore

\* 'led 5k': a second 'led' put in front of the text leaves the score, a
\* 'created' put behind the text raises it by two.
C3_Witness ==
    /\ resumeData.summary = summaryLed5k
    /\ resumeData.experience = <<>>
    /\ resumeData.skills.technical = <<>>
    /\ resumeData.skills.soft = <<>>
    /\ step = 2
    /\ CleanInsertionPoint(resumeData, <<"summary">>, 0)
    /\ ScoreAfterInsert(<<"summary">>, 0, 5) = atsScore
    /\ CleanInsertionPoint(resumeData, <<"summary">>, 6)
    /\ ScoreAfterInsert(<<"summary">>, 6, 6) = atsScore + 2

\* C4: the +10 experience bonus is added exactly when some entry of the
\* experience list, the first or a later one, has bullet text longer than
\* 30 characters.
C4_ExperienceBonusAnyEntry ==
    (experienceBonus(resumeData) = 10)
        <=> (\E i \in 1..Len(resumeData.experience) : Len(resumeData.experience[i].bullets) > 30)

\* C5: the +5 education bonus is added exactly when some entry of the
\* education list has a non-empty institution.
C5_EducationBonusAnyEntry ==
    (educationBonus(resumeData) = 5)
        <=> (\E i \in 1..Len(resumeData.education) : Len(resumeData.education[i].institution) > 0)

Blank(s) == \A i \in 1..Len(s) : s[i] \in WhiteSpace

\* C6: the score carries the +5 completeness bonus exactly when job title,
\* name, email and summary all hold a character that is not white space;
\* a white-space-only required field loses it, and phone and linkedin do not
\* change it.
C6_CompletenessBonus ==
    LET allPresent == \A i \in 1..4 : ~Blank(resumeData[requiredFields[i]])
        c          == content(resumeData)
        others     == 50 + experienceBonus(resumeData) + educationBonus(resumeData)
                         + verbBonus(c) + numberBonus(c) + templateAdjustment(selectedTemplate)
        contacts   == [resumeData EXCEPT !.phone = <<"5", "5", "5", " ">>,
                                         !.linkedin = <<"i", "n", "\t">>]
    IN  /\ atsScore = others + (IF allPresent THEN 5 ELSE 0)
        /\ \A i \in 1..4 :
               completenessBonus([resumeData EXCEPT ![requiredFields[i]] = <<" ", "\n">>]) = 0
        /\ completenessBonus(contacts) = completenessBonus(resumeData)
        /\ completenessBonus([contacts EXCEPT !.jobTitle = <<>>]) = 0

\* A complete resume next to one whose job title is white space only.
C6_Witness ==
    /\ \A i \in 1..4 : ~Blank(resumeData[requiredFields[i]])
    /\ step = 2
    /\ atsScore = calculateATSScore([resumeData EXCEPT !.jobTitle = <<" ">>], selectedTemplate) + 5

\* C9: with empty summary, no experience, no education and empty skills the
\* score under 'classic' is exactly 55, whatever the contact fields hold.
C9_EmptyClassicIs55 ==
    (EmptyContent(resumeData) /\ selectedTemplate = "classic") =>
        /\ atsScore = 55
        /\ \A ph \in {<<>>, <<"5", "5", "5">>}, li \in {<<>>, <<"i", "n">>} :
               calculateATSScore([resumeData EXCEPT !.phone = ph, !.linkedin = li], "classic") = 55

\* The empty resume of a user who filled in job title, name and email.
C9_Witness ==
    /\ EmptyContent(resumeData)
    /\ selectedTemplate = "classic"
    /\ step = 2
    /\ resumeData.jobTitle # <<>> /\ resumeData.name # <<>> /\ resumeData.email # <<>>
    /\ atsScore = 55

\* The score with the verb bonus vb and the number bonus nb put in place of
\* the two keyword bonuses.
ScoreWith(vb, nb) ==
    50 + completenessBonus(resumeData) + experienceBonus(resumeData)
       + educationBonus(resumeData) + vb + nb + templateAdjustment(selectedTemplate)

SameLetter(ch, lower) ==
    \/ ch = lower
    \/ ch \in UpperCaseSet /\ \E k \in 1..26 : UpperCase[k] = ch /\ LowerCase[k] = lower

OccursIgnoringCase(text, word) ==
    \E i \in 0..(Len(text) - Len(word)) :
        \A k \in 1..Len(word) : SameLetter(text[i + k], word[k])

\* C7: the verb bonus in the score is min(2 x c, 15), c being the number of
\* the seven action verbs that occur, in upper or lower case, in summary +
\* bullet texts + technical + soft skills; a verb counts once however often
\* it occurs.
C7_VerbBonus ==
    LET text == concatenation(resumeData)
        c    == Cardinality({n \in 1..Len(actionVerbs) : OccursIgnoringCase(text, actionVerbs[n])})
    IN  /\ Len(actionVerbs) = 7
        /\ atsScore = ScoreWith(Min(2 * c, 15), numberBonus(content(resumeData)))

\* 'Led' in the summary and 'LED' in the technical skills count as one verb.
C7_Witness ==
    /\ resumeData.summary = summaryLed
    /\ resumeData.skills.technical = technicalNumbers
    /\ resumeData.experience = <<>>
    /\ resumeData.skills.soft = <<>>
    /\ step = 2
    /\ verbBonus(content(resumeData)) = 2

\* The digit runs of text that are directly followed by '+', '%', 'x', 'k'
\* (in either case) or white space: the first position of each.
QuantifiedRuns(text) ==
    { i \in 1..Len(text) :
        /\ text[i] \in Digits
        /\ (i = 1 \/ text[i - 1] \notin Digits)
        /\ \E e \in (i + 1)..Len(text) :
               /\ \A j \in i..(e - 1) : text[j] \in Digits
               /\ text[e] \in {"+", "%", "x", "k", "X", "K"} \cup WhiteSpace }

\* C8: the number bonus in the score is min(2 x n, 10), n being the number
\* of digit sequences of the concatenation that are directly followed by '+',
\* '%', 'x', 'k' or white space; a digit sequence at the very end or before
\* any other character is not counted.
C8_NumberBonus ==
    LET n == Cardinality(QuantifiedRuns(concatenation(resumeData)))
    IN  atsScore = ScoreWith(verbBonus(content(resumeData)), Min(2 * n, 10))

\* Eight counted numbers, capped at +10, and a ninth at the very end of the
\* concatenation that is not counted.
C8_Witness ==
    /\ resumeData.skills.technical = technicalNumbers
    /\ resumeData.skills.soft = <<>>
    /\ resumeData.summary = <<>>
    /\ resumeData.experience = <<>>
    /\ step = 2
    /\ numberCount(content(resumeData)) = 8
    /\ numberBonus(content(resumeData)) = 10

\* C10: in every state reached from initialResumeData by the form operations,
\* under every template, calculateATSScore returns a score; an empty field
\* or list only leaves its bonus out, so the score is never below the base
\* score adjusted for the template.
C10_NeverFails ==
    /\ ~calculateATSScoreThrows(resumeData)
    /\ atsScore \in (50 + templateAdjustment(selectedTemplate))..100

\* Every experience and education entry removed, score shown in step 3.
C10_Witness ==
    /\ resumeData.experience = <<>>
    /\ resumeData.education = <<>>
    /\ step = 3
    /\ selectedTemplate = "anti"
    /\ ~calculateATSScoreThrows(resumeData)
    /\ atsScore < calculateATSScore(initialResumeData, "anti")

---------------------------------------------------------------------------
(* Properties of MapView, checked under SpecMap.                            *)

\* The postings of jobs that pass the text search and the city filter.
passingTextAndCity == citySelect(textSearch(allJobs, searchTerm), cityFilter)

isRetained(job) == \E k \in 1..Len(filteredJobs) : filteredJobs[k] = job

distanceFromUser(job) ==
    calculateDistance(userLocation[1], userLocation[2], job.coordinates[1], job.coordinates[2])

C13_NoLocationExcludesNothing ==
    userLocation = noLocation =>
        /\ filteredJobs = passingTextAndCity
        /\ \A nearby \in BOOLEAN :
              computeFilteredJobs(allJobs, searchTerm, cityFilter, nearby, userLocation)
                  = passingTextAndCity

\* Geolocation was denied or is unavailable, and a posting far from every
\* user passes the text search.
C13_Witness ==
    /\ userLocation = noLocation
    /\ geolocation \in {"done", "unavailable"}
    /\ ~loading
    /\ searchTerm # <<>>
    /\ \E k \in 1..Len(filteredJobs) : filteredJobs[k].coordinates = cityToCoords["Remote"]

---------------------------------------------------------------------------
(* Properties of calculateDistance, checked under SpecDistance.             *)

\* The points of the state: the user location and the coordinates of the
\* postings.
pointsHeld == {userLocation} \cup {allJobs[i].coordinates : i \in 1..Len(allJobs)}

\* C14: the distance of a point to itself is 0, and a posting whose
\* coordinates are the user location is retained by the nearby filter.
C14_DistanceToItselfIsZero ==
    /\ \A point \in pointsHeld : calculateDistance(point[1], point[2], point[1], point[2]) = 0
    /\ nearbyFilter =>
          \A i \in 1..Len(allJobs) :
              allJobs[i].coordinates = userLocation => isRetained(allJobs[i])

\* The nearby filter is on and retains a posting at the user's location.
C14_Witness ==
    /\ nearbyFilter
    /\ \E k \in 1..Len(filteredJobs) : filteredJobs[k].coordinates = userLocation

\* C15: the distance from A to B is the distance from B to A, so that the
\* nearby decision is the same with the posting as the reference point.
C15_DistanceSymmetric ==
    \A A, B \in pointsHeld :
        /\ calculateDistance(A[1], A[2], B[1], B[2]) = calculateDistance(B[1], B[2], A[1], A[2])
        /\ isNearby(A, [coordinates |-> B]) <=> isNearby(B, [coordinates |-> A])

\* The posting and the user are at different latitudes and longitudes,
\* more than 50 km apart, and the nearby filter has excluded the posting.
C15_Witness ==
    /\ nearbyFilter
    /\ filteredJobs = <<>>
    /\ \E i \in 1..Len(allJobs) :
          /\ allJobs[i].coordinates[1] # userLocation[1]
          /\ allJobs[i].coordinates[2] # userLocation[2]
          /\ distanceFromUser(allJobs[i]) > 50

---------------------------------------------------------------------------
(* Properties of the filter pipeline and of the snapshot callback, checked  *)
(* under SpecMap.                                                           *)

SameIgnoringCase(a, b) == a = b \/ SameLetter(a, b) \/ SameLetter(b, a)

ContainsIgnoringCase(text, word) ==
    \E i \in 0..(Len(text) - Len(word)) :
        \A k \in 1..Len(word) : SameIgnoringCase(text[i + k], word[k])

\* The posting satisfies every active criterion.
SatisfiesActiveCriteria(job) ==
    /\ searchTerm # <<>> =>
          \/ ContainsIgnoringCase(job.jobTitle, searchTerm)
          \/ ContainsIgnoringCase(job.companyName, searchTerm)
          \/ ContainsIgnoringCase(job.description, searchTerm)
    /\ cityFilter # "All" => job.city = cityFilter
    /\ (nearbyFilter /\ userLocation # noLocation) => distanceFromUser(job) <= 50

\* C16: filteredJobs is the sub-list of allJobs, in the order of allJobs, of
\* the postings that contain the search term in title, company or
\* description whatever the case, are of the selected city and lie within
\* the radius, each criterion counting only when active; with no criterion
\* active it is allJobs.
C16_FilterPipeline ==
    /\ filteredJobs = SelectSeq(allJobs, SatisfiesActiveCriteria)
    /\ (searchTerm = <<>> /\ cityFilter = "All" /\ ~nearbyFilter) => filteredJobs = allJobs

\* The three criteria are active, the search term is in upper case, and one
\* of two postings is retained.
C16_Witness ==
    /\ searchTerm # <<>>
    /\ \E k \in 1..Len(searchTerm) : searchTerm[k] \in UpperCaseSet
    /\ cityFilter # "All"
    /\ nearbyFilter
    /\ userLocation # noLocation
    /\ Len(allJobs) = 2
    /\ Len(filteredJobs) = 1

\* C17: each posting of allJobs has a coordinate pair: the latitude and
\* longitude of its document when the document carries both, otherwise the
\* entry of the city table for its city, otherwise the entry of "Remote".
\* The posting keeps the fields of its document.
C17_CoordinatesResolved ==
    \A i \in 1..Len(allJobs) :
        LET job == allJobs[i]
        IN  /\ Len(job.coordinates) = 2
            /\ job.coordinates =
                  IF "latitude" \in DOMAIN job /\ "longitude" \in DOMAIN job
                  THEN <<job.latitude, job.longitude>>
                  ELSE IF job.city \in DOMAIN cityToCoords THEN cityToCoords[job.city]
                  ELSE cityToCoords["Remote"]

\* C18: computing the filtered list has no side effect: a step in which
\* only a filter setting changes, so that the list is recomputed, leaves
\* allJobs, the alert message and its timers as they were.
C18_FilterComputationChangesNoState ==
    [][ <<searchTerm, cityFilter, nearbyFilter>>' # <<searchTerm, cityFilter, nearbyFilter>>
           => /\ allJobs' = allJobs
              /\ error' = error
              /\ timers' = timers ]_vars

---------------------------------------------------------------------------
(* Properties of the store subscriptions, checked under SpecSubscriptions.  *)

\* C19: at every moment a mounted component has at most one listener in the
\* store, the effect of that component holding its handle, and a component
\* that is not mounted has none.
C19_AtMostOneListener ==
    \A c \in Components :
        /\ c \in mounted => listeners[c] <= 1
        /\ c \notin mounted => listeners[c] = 0
        /\ listeners[c] = 1 => unsubscribe[c] # undefined

\* A second user is signed in, SavedJobs and MapView listen, and
\* JobPostingManager, which was mounted while a user was signed in, is
\* unmounted.
C19_Witness ==
    /\ user = "u2"
    /\ {"MapView", "SavedJobs"} \subseteq mounted
    /\ listeners["MapView"] = 1
    /\ listeners["SavedJobs"] = 1
    /\ "JobPostingManager" \notin mounted
    /\ error = msgFailed["JobPostingManager"]

---------------------------------------------------------------------------
(* Properties of createInitialUserData, checked under SpecProfile.          *)

\* C20: a profile document that exists is not written by a call of
\* createInitialUserData, whether calls overlap or not: no step changes a
\* document that exists.
C20_ExistingProfileNeverOverwritten ==
    [][profile.exists => profile' = profile]_vars

---------------------------------------------------------------------------
(* Properties of handlePostJob and CompanyDashboard, checked under          *)
(* SpecPost.                                                                *)

\* C21: the stored counter of the company is the number of calls of
\* handlePostJob that succeeded, and once no call and no load is in
\* progress the value of 'Active Postings' is that number.
C21_ActivePostingsCountsPosts ==
    /\ (IF companies.exists THEN companies.jobPostings ELSE 0) = Cardinality(reported("success"))
    /\ (post.pc = "idle" /\ loads = 0) => activePostings = Cardinality(reported("success"))

\* C27: a call of handlePostJob that reported a failure has added no
\* document to jobPostings, and a call made without a user has written
\* nothing.
C27_ReportedFailureAddedNothing ==
    \A n \in reported("error") :
        \A i \in 1..Len(jobPostings) : jobPostings[i].call # n

---------------------------------------------------------------------------
(* Properties of the views and of the alert, checked under SpecAuth.        *)

\* C22: the content of Dashboard and the content of CompanyDashboard are
\* rendered only for a user who is not null and not anonymous, and with no
\* user (after a sign-out was delivered) AuthComponent shows the login or
\* the register card.
C22_DashboardsOnlyForSignedInUsers ==
    /\ AuthComponent = "dashboard" => (user # null /\ ~isAnonymous)
    /\ CompanyDashboard = "companyDashboard" => (user # null /\ ~isAnonymous)
    /\ (user = null /\ ~authLoading) => AuthComponent \in {"login", "register"}

\* A sign-out from Dashboard has been delivered and the card is back.
C22_Witness ==
    /\ user = null
    /\ currentUser = noUser
    /\ error = msgSignedOut["Dashboard"]
    /\ AuthComponent \in {"login", "register"}

\* C26: a message written with isError true is not removed by a timer of
\* an earlier success message; a step in which a timer fires leaves it.
C26_ErrorOutlivesEarlierTimer ==
    [][(error \in ErrorMessages /\ timers' < timers) => error' = error]_vars

---------------------------------------------------------------------------
(* Properties of handleRegister, checked under SpecRegister.                *)

\* The password of a submission has at least 8 characters and equals the
\* confirmation.
passwordAccepted(r) ==
    /\ Len(r.password) >= 8
    /\ r.password = r.confirmPassword

\* C23: a submission of either card goes on to
\* createUserWithEmailAndPassword only when the password has at least 8
\* characters and equals the confirmation; any other submission writes one
\* of the two messages, makes no request, creates no account and no
\* document, and leaves isSubmitting false.  Every account created has a
\* password of at least 8 characters.
C23_RegisterOnlyWithValidPassword ==
    [][\A card \in Cards :
          /\ (register[card].pc # "createUser" /\ register'[card].pc = "createUser")
                => passwordAccepted(register'[card])
          /\ (attempts'[card] > attempts[card] /\ passwordAccepted(register'[card]))
                => register'[card].pc = "createUser"
          /\ (attempts'[card] > attempts[card] /\ ~passwordAccepted(register'[card]))
                => /\ error' \in {msgPasswordShort, msgPasswordsDiffer}
                   /\ register'[card].pc = "idle"
                   /\ ~register'[card].isSubmitting
                   /\ accounts' = accounts
                   /\ documents' = documents
                   /\ currentUser' = currentUser
          /\ \A a \in accounts' : Len(a.password) >= 8]_vars

\* One card has created an account and its document; the other card's
\* last submission had a password of 8 characters with a different
\* confirmation and was turned down.
C23_Witness ==
    /\ accounts # {}
    /\ documents # {}
    /\ \E card \in Cards :
          /\ attempts[card] > 0
          /\ Len(register[card].password) >= 8
          /\ register[card].password # register[card].confirmPassword
          /\ register[card].pc = "idle"
          /\ error = msgPasswordsDiffer

---------------------------------------------------------------------------
(* Properties of JobSearch and of the two handleApply, checked under        *)
(* SpecSearch.                                                             *)

\* The applications stored from JobSearch for a user and a posting.
storedFromSearch(uid, job) ==
    {n \in 1..Len(jobApplications) :
        /\ jobApplications[n].component = "JobSearch"
        /\ jobApplications[n].userId = uid
        /\ jobApplications[n].jobId = job}

\* C24: for every user and posting, at most one document of
\* jobApplications with that userId and jobId has been created from
\* JobSearch.
C24_AtMostOneApplication ==
    \A uid \in Users : \A job \in 1..Len(jobPostings) :
        Cardinality(storedFromSearch(uid, job)) <= 1

\* C25: once every snapshot callback has completed, the list JobSearch
\* displays and the saved and applied flags of its entries are those built
\* from the latest snapshot.
C25_LatestSnapshotDisplayed ==
    (callbacks = {} /\ ~searchLoading) =>
        \E appliedIds \in SUBSET (1..Len(jobPostings)) :
            jobs = fetchedJobList(Len(jobPostings), userSavedJobs, appliedIds)

\* C28: every application the signed-in user has submitted, from JobSearch
\* or from the modal of MapView, is returned by the query of Applications
\* for that user.
C28_ApplicationsReturnedByQuery ==
    \A n \in 1..Len(jobApplications) :
        jobApplications[n].submittedBy = user => n \in DOMAIN fetchedApps(user)

=============================================================================
